---------------------------- MODULE Spec2Model ----------------------------
(***************************************************************************)
(* A model of the subv assembler pipeline (guidoism/subv):                 *)
(*   bits.py    bit-field arithmetic (u, i, from_part, concat, slice)      *)
(*   format.py  instruction-format verifier / packer                       *)
(*   survey.py  address assignment and label resolution                    *)
(*   pack.py    packing of bit-fields into bytes                           *)
(*   subv.py    the line-oriented intermediate language                    *)
(*                                                                         *)
(* Representation.                                                         *)
(*  - A Python int is unbounded, a TLC integer has 32 bits.  A Python int  *)
(*    n is held as the pair <<h, l>> with n = h * 2^16 + l, 0 <= l < 2^16  *)
(*    (h carries the sign), which covers |n| < 2^46.                       *)
(*  - A tag such as 'rd', 'imm20', 'off8' or '12' is held as               *)
(*    [name, num]: its leading letters and its trailing decimal number     *)
(*    (NoNum when it has none), which is what field_re and int() read.     *)
(*  - The head of a part is [ref |-> FALSE, val] for an integer literal    *)
(*    and [ref |-> TRUE, label, hi, lo] for a string 'label[hi:lo]'        *)
(*    (hi = lo = NoNum for a bare 'label'), which is what slice_re reads.  *)
(*  - A function that raises returns [ok |-> FALSE, err |-> <exception>].  *)
(***************************************************************************)
EXTENDS Integers, Sequences, FiniteSets, TLC

VARIABLES
    call,       \* bits level: the function applied and its arguments
    ret,        \* bits level: what the call returned or raised
    fSegment,   \* format.format: local `segment`
    fLine,      \* format.format: the line the loop read last
    fOut,       \* format.format: what that iteration yielded
    fPc,        \* format.format: "run" or "failed"
    queue,      \* survey.survey: local `queue`
    map,        \* survey.survey: local `map` (label -> address)
    addr,       \* survey.survey: local `addr`
    sPc,        \* survey.survey: "pass1", "pass2", "done" or "failed"
    sPos,       \* survey.survey: index into queue of the second loop
    sOut,       \* survey.survey: the lines yielded so far
    pLine,      \* pack.pack: the line the loop read last
    pOut,       \* pack.pack: what that iteration yielded
    pPc,        \* pack.pack: "run" or "failed"
    src,        \* pipeline: the source text given to format
    formatted,  \* pipeline: result of format over src
    surveyed,   \* pipeline: result of survey over format's output
    packed,     \* pipeline: result of pack over survey's output
    stage,      \* pipeline: how many stages have run
    segments,   \* elf main: the list `segments`
    cursor,     \* elf main: `c`, the count of bytes written
    segment_start, \* elf main: local `segment_start`
    file,       \* elf main: what was written to stdout, in order
    ePos,       \* elf main: index into segments of the running loop
    ePc         \* elf main: "read", "headers", "contents", "done" or "failed"

vars == <<call, ret, fSegment, fLine, fOut, fPc, queue, map, addr, sPc, sPos,
          sOut, pLine, pOut, pPc, src, formatted, surveyed, packed, stage,
          segments, cursor, segment_start, file, ePos, ePc>>

bitsVars   == <<call, ret>>
formatVars == <<fSegment, fLine, fOut, fPc>>
surveyVars == <<queue, map, addr, sPc, sPos, sOut>>
packVars   == <<pLine, pOut, pPc>>
pipeVars   == <<src, formatted, surveyed, packed, stage>>
elfVars    == <<segments, cursor, segment_start, file, ePos, ePc>>

-----------------------------------------------------------------------------
(* Python integers                                                         *)

Base == 2^16

\* the Python int h * 2^16 + l
Norm(h, l) == <<h + (l \div Base), l % Base>>

\* the Python int of a small literal
Py(n) == Norm(0, n)

Zero == Py(0)
One  == Py(1)

\* a + b
Add(a, b) == Norm(a[1] + b[1], a[2] + b[2])

\* a - b
Sub(a, b) == Norm(a[1] - b[1], a[2] - b[2])

\* -a
Neg(a) == Sub(Zero, a)

\* a < b
Lt(a, b) == a[1] < b[1] \/ (a[1] = b[1] /\ a[2] < b[2])

\* a <= b
Le(a, b) == ~Lt(b, a)

\* a << k
RECURSIVE Shl(_, _)
Shl(a, k) ==
    IF k >= 16 THEN Shl(<<a[1] * Base + a[2], 0>>, k - 16)
    ELSE Norm(a[1] * 2^k, a[2] * 2^k)

\* a >> k (arithmetic: floor of a / 2^k)
RECURSIVE Shr(_, _)
Shr(a, k) ==
    IF k >= 16 THEN Shr(<<a[1] \div Base, a[1] % Base>>, k - 16)
    ELSE <<a[1] \div 2^k, (a[2] \div 2^k) + (a[1] % 2^k) * 2^(16 - k)>>

\* x & y and x | y on two's-complement integers of any sign
RECURSIVE AndInt(_, _)
AndInt(x, y) ==
    IF x = 0 \/ y = 0 THEN 0
    ELSE IF x = -1 THEN y
    ELSE IF y = -1 THEN x
    ELSE (x % 2) * (y % 2) + 2 * AndInt(x \div 2, y \div 2)

RECURSIVE OrInt(_, _)
OrInt(x, y) ==
    IF x = 0 THEN y
    ELSE IF y = 0 THEN x
    ELSE IF x = -1 \/ y = -1 THEN -1
    ELSE ((x % 2) + (y % 2) - (x % 2) * (y % 2)) + 2 * OrInt(x \div 2, y \div 2)

\* a & b
And(a, b) == <<AndInt(a[1], b[1]), AndInt(a[2], b[2])>>

\* a | b
Or(a, b) == <<OrInt(a[1], b[1]), OrInt(a[2], b[2])>>

RECURSIVE NatBits(_)
NatBits(x) == IF x = 0 THEN 0 ELSE 1 + NatBits(x \div 2)

\* a.bit_length(): the bits of |a|
bit_length(a) ==
    LET m == IF Lt(a, Zero) THEN Neg(a) ELSE a
    IN  IF m[1] = 0 THEN NatBits(m[2]) ELSE 16 + NatBits(m[1])

\* a // 8 and a % 8 == 0 for a small int are \div and % (both floor)

-----------------------------------------------------------------------------
(* Results of calls                                                        *)

Ok(v)  == [ok |-> TRUE, val |-> v, err |-> ""]
Err(e) == [ok |-> FALSE, val |-> <<>>, err |-> e]

-----------------------------------------------------------------------------
(* bits.py                                                                 *)

\* a variant of u that rejects the numbers of exactly `bits` bits
u_offbyone(num, bits) ==
    IF Lt(num, Zero) THEN Err("ValueError")
    ELSE IF bit_length(num) >= bits THEN Err("ValueError")
    ELSE Ok(<<num, bits>>)

u(num, bits) ==
    IF Lt(num, Zero) THEN Err("ValueError")
    ELSE IF bit_length(num) > bits THEN Err("ValueError")
    ELSE Ok(<<num, bits>>)

i(num, bits) ==
    LET min == Neg(Shl(One, bits - 1))
        max == Sub(Py(-1), min)
    IN  IF Lt(max, num) \/ Lt(num, min) THEN Err("ValueError")
        ELSE u(IF Lt(num, Zero) THEN Add(Shl(One, bits), num) ELSE num, bits)

\* part[0] is already an int and part[1] a tag; int(size) reads its number
from_part(val, size) == <<val, size>>

RECURSIVE concat_from(_, _, _)
concat_from(parts, val, size) ==
    IF parts = <<>> THEN <<val, size>>
    ELSE concat_from(Tail(parts),
                     Or(val, Shl(Head(parts)[1], size)),
                     size + Head(parts)[2])

\* a variant of concat that lays its last argument lowest
concat_reversed(parts) ==
    concat_from([k \in 1..Len(parts) |-> parts[Len(parts) + 1 - k]], Zero, 0)

concat(parts) == concat_from(parts, Zero, 0)

slice(bits, hi, lo) ==
    IF hi < lo THEN Err("ValueError")
    ELSE IF lo < 0 \/ hi >= bits[2] THEN Err("ValueError")
    ELSE LET size == hi - lo + 1
         IN  Ok(<<And(Shr(bits[1], lo), Sub(Shl(One, size), One)), size>>)

-----------------------------------------------------------------------------
(* subv.py: lines, parts, tags                                             *)

\* a tag without a number ('rd', 'lui') and with one ('imm20', 't0', '12')
T(name)     == [name |-> name, num |-> <<>>]
TN(name, n) == [name |-> name, num |-> <<n>>]
\* the decimal width tag of a bit-field part ('12')
W(n)        == TN("", n)

\* part[0]: an int literal, or a string 'label' / 'label[hi:lo]'
IntHead(v)       == [ref |-> FALSE, val |-> v, label |-> "", slice |-> <<>>]
RefHead(l, hilo) == [ref |-> TRUE, val |-> Zero, label |-> l, slice |-> hilo]

\* the tuple (v, w) of bits.py as subv.format prints it ('{:02x}' of v, str
\* of w) and subv.parse_part reads it back: an int head and the tag 'w'
Field(v, w) == <<IntHead(v), W(w)>>

\* what subv.parse returns (the keys this model reads)
InstrLine(parts) ==
    [type |-> "instr", instr |-> parts, segment |-> <<>>, label |-> ""]
SegmentLine(seg) ==
    [type |-> "segment", instr |-> <<>>, segment |-> seg, label |-> ""]
LabelLine(l) ==
    [type |-> "label", instr |-> <<>>, segment |-> <<>>, label |-> l]
EmptyLine ==
    [type |-> "empty", instr |-> <<>>, segment |-> <<>>, label |-> ""]

\* field_re = ^(imm|off)(\d+)$ matches the tag
field_re_match(tag) == tag.name \in {"imm", "off"} /\ tag.num # <<>>

parse_reference(part) ==
    IF Len(part) < 2 THEN Err("IndexError")
    ELSE IF ~field_re_match(part[2]) THEN Err("AttributeError")
    ELSE Ok([label |-> part[1].label,
             mode  |-> part[2].name,
             size  |-> part[2].num[1],
             meta  |-> SubSeq(part, 3, Len(part)),
             slice |-> part[1].slice])

is_reference(part) == part[1].ref

\* expect is <<>> for None and <<tag>> otherwise
untag(part, expect) ==
    IF expect # <<>> /\ Len(part) < 2 THEN Err("IndexError")
    ELSE IF expect # <<>> /\ part[2] # expect[1] THEN Err("ValueError")
    ELSE Ok(part[1])

-----------------------------------------------------------------------------
(* format.py                                                               *)

\* bits.u / bits.i applied to what untag returned: a string head makes the
\* comparison with 0 raise TypeError
u_of(head, bits) ==
    IF ~head.ok THEN head
    ELSE IF head.val.ref THEN Err("TypeError")
    ELSE LET r == u(head.val.val, bits)
         IN  IF r.ok THEN Ok(Field(r.val[1], r.val[2])) ELSE r

i_of(head, bits) ==
    IF ~head.ok THEN head
    ELSE IF head.val.ref THEN Err("TypeError")
    ELSE LET r == i(head.val.val, bits)
         IN  IF r.ok THEN Ok(Field(r.val[1], r.val[2])) ELSE r

\* the first exception raised while evaluating rs in order
RECURSIVE FirstErr(_)
FirstErr(rs) ==
    IF rs = <<>> THEN Ok(<<>>)
    ELSE IF ~Head(rs).ok THEN Head(rs)
    ELSE FirstErr(Tail(rs))

\* evaluate `steps` in order, then return the list `out`
Return(steps, out) ==
    IF FirstErr(steps).ok THEN Ok([k \in 1..Len(out) |-> out[k].val])
    ELSE FirstErr(steps)

default_slice(val, hi, lo) ==
    LET parsed == parse_reference(val)
    IN  IF ~parsed.ok THEN parsed
        ELSE LET hilo   == IF parsed.val.slice = <<>> THEN <<hi, lo>>
                           ELSE parsed.val.slice
                 p_size == hilo[1] - hilo[2] + 1
             IN  IF parsed.val.size # p_size THEN Err("AssertionError")
                 ELSE Ok(<<RefHead(parsed.val.label, hilo)>> \o Tail(val))

\* a variant of slice_bit_or_ref that takes hi:lo as bits of the label, not
\* of the reference's own slice
slice_ref_absolute(val, hi, lo) ==
    IF ~val[1].ref
    THEN LET r == slice(<<val[1].val, val[2].num[1]>>, hi, lo)
         IN  IF r.ok THEN Ok(Field(r.val[1], r.val[2])) ELSE r
    ELSE LET ref == parse_reference(val)
         IN  IF ~ref.ok THEN ref
             ELSE IF ref.val.slice = <<>> THEN Err("AssertionError")
             ELSE LET sz  == hi - lo
                      nlo == lo
                      nhi == nlo + sz
                  IN  IF nhi > ref.val.slice[1] THEN Err("AssertionError")
                      ELSE Ok(<<RefHead(ref.val.label, <<nhi, nlo>>),
                                TN(ref.val.mode, sz + 1)>>
                              \o SubSeq(val, 3, Len(val)))

\* a variant of slice_bit_or_ref without the assertion on the bounds
slice_ref_unbounded(val, hi, lo) ==
    IF ~val[1].ref
    THEN LET r == slice(<<val[1].val, val[2].num[1]>>, hi, lo)
         IN  IF r.ok THEN Ok(Field(r.val[1], r.val[2])) ELSE r
    ELSE LET ref == parse_reference(val)
         IN  IF ~ref.ok THEN ref
             ELSE IF ref.val.slice = <<>> THEN Err("AssertionError")
             ELSE LET sz  == hi - lo
                      nlo == ref.val.slice[2] + lo
                      nhi == nlo + sz
                  IN  Ok(<<RefHead(ref.val.label, <<nhi, nlo>>),
                           TN(ref.val.mode, sz + 1)>>
                         \o SubSeq(val, 3, Len(val)))

slice_bit_or_ref(val, hi, lo) ==
    IF ~val[1].ref
    THEN LET r == slice(<<val[1].val, val[2].num[1]>>, hi, lo)
         IN  IF r.ok THEN Ok(Field(r.val[1], r.val[2])) ELSE r
    ELSE LET ref == parse_reference(val)
         IN  IF ~ref.ok THEN ref
             ELSE IF ref.val.slice = <<>> THEN Err("AssertionError")
             ELSE LET sz  == hi - lo
                      nlo == ref.val.slice[2] + lo
                      nhi == nlo + sz
                  IN  IF nhi > ref.val.slice[1] THEN Err("AssertionError")
                      ELSE Ok(<<RefHead(ref.val.label, <<nhi, nlo>>),
                                TN(ref.val.mode, sz + 1)>>
                              \o SubSeq(val, 3, Len(val)))

\* slice_bit_or_ref of an immediate whose evaluation may have raised
sub_imm(imm, hi, lo) ==
    IF ~imm.ok THEN imm ELSE slice_bit_or_ref(imm.val, hi, lo)

pack_u(instr) ==
    IF Len(instr) # 3 THEN Err("ValueError")
    ELSE LET op  == u_of(untag(instr[1], <<>>), 7)
             rd  == u_of(untag(instr[2], <<T("rd")>>), 5)
             imm == IF is_reference(instr[3])
                    THEN default_slice(instr[3], 31, 12)
                    ELSE i_of(untag(instr[3], <<TN("imm", 20)>>), 20)
         IN  Return(<<op, rd, imm>>, <<op, rd, imm>>)

pack_i(instr) ==
    IF Len(instr) # 5 THEN Err("ValueError")
    ELSE LET op  == u_of(untag(instr[1], <<>>), 7)
             sb  == u_of(untag(instr[2], <<T("subop")>>), 3)
             rd  == u_of(untag(instr[3], <<T("rd")>>), 5)
             rs  == u_of(untag(instr[4], <<T("rs")>>), 5)
             imm == IF is_reference(instr[5])
                    THEN default_slice(instr[5], 11, 0)
                    ELSE i_of(untag(instr[5], <<TN("imm", 12)>>), 12)
         IN  Return(<<op, sb, rd, rs, imm>>, <<op, rd, sb, rs, imm>>)

pack_s(instr) ==
    IF Len(instr) # 5 THEN Err("ValueError")
    ELSE LET op  == u_of(untag(instr[1], <<>>), 7)
             sb  == u_of(untag(instr[2], <<T("subop")>>), 3)
             rs1 == u_of(untag(instr[3], <<T("rs")>>), 5)
             rs2 == u_of(untag(instr[4], <<T("rs")>>), 5)
             imm == IF is_reference(instr[5])
                    THEN default_slice(instr[5], 11, 0)
                    ELSE i_of(untag(instr[5], <<TN("off", 12)>>), 12)
             imm_lo == sub_imm(imm, 4, 0)
             imm_hi == sub_imm(imm, 11, 5)
         IN  Return(<<op, sb, rs1, rs2, imm, imm_lo, imm_hi>>,
                    <<op, imm_lo, sb, rs1, rs2, imm_hi>>)

\* a variant of pack_j that emits imm[20] and imm[11] in each other's place
pack_j_swapped(instr) ==
    IF Len(instr) # 3 THEN Err("ValueError")
    ELSE LET op  == u_of(untag(instr[1], <<>>), 7)
             rd  == u_of(untag(instr[2], <<T("rd")>>), 5)
             imm == IF is_reference(instr[3])
                    THEN default_slice(instr[3], 20, 1)
                    ELSE i_of(untag(instr[3], <<TN("off", 20)>>), 20)
             imm_lo == sub_imm(imm, 9, 0)
             imm_11 == sub_imm(imm, 10, 10)
             imm_hi == sub_imm(imm, 18, 11)
             imm_20 == sub_imm(imm, 19, 19)
         IN  Return(<<op, rd, imm, imm_lo, imm_11, imm_hi, imm_20>>,
                    <<op, rd, imm_hi, imm_20, imm_lo, imm_11>>)

pack_j(instr) ==
    IF Len(instr) # 3 THEN Err("ValueError")
    ELSE LET op  == u_of(untag(instr[1], <<>>), 7)
             rd  == u_of(untag(instr[2], <<T("rd")>>), 5)
             imm == IF is_reference(instr[3])
                    THEN default_slice(instr[3], 20, 1)
                    ELSE i_of(untag(instr[3], <<TN("off", 20)>>), 20)
             imm_lo == sub_imm(imm, 9, 0)
             imm_11 == sub_imm(imm, 10, 10)
             imm_hi == sub_imm(imm, 18, 11)
             imm_20 == sub_imm(imm, 19, 19)
         IN  Return(<<op, rd, imm, imm_lo, imm_11, imm_hi, imm_20>>,
                    <<op, rd, imm_hi, imm_11, imm_lo, imm_20>>)

pack_b(instr) ==
    IF Len(instr) # 5 THEN Err("ValueError")
    ELSE LET op  == u_of(untag(instr[1], <<>>), 7)
             sb  == u_of(untag(instr[2], <<T("subop")>>), 3)
             rs1 == u_of(untag(instr[3], <<T("rs")>>), 5)
             rs2 == u_of(untag(instr[4], <<T("rs")>>), 5)
             imm == IF is_reference(instr[5])
                    THEN default_slice(instr[5], 12, 1)
                    ELSE i_of(untag(instr[5], <<TN("off", 12)>>), 12)
             imm_lo == sub_imm(imm, 3, 0)
             imm_md == sub_imm(imm, 9, 4)
             imm_11 == sub_imm(imm, 10, 10)
             imm_12 == sub_imm(imm, 11, 11)
         IN  Return(<<op, sb, rs1, rs2, imm, imm_lo, imm_md, imm_11, imm_12>>,
                    <<op, imm_11, imm_lo, sb, rs1, rs2, imm_md, imm_12>>)

\* instr_map: label -> (formatter, expected opcode)
Mnemonics == {"load", "opi", "jalr", "store", "branch", "lui", "auipc", "jal"}

instr_map(label) ==
    CASE label = "load"   -> [fmt |-> "I", op |-> 3]
      [] label = "opi"    -> [fmt |-> "I", op |-> 19]
      [] label = "jalr"   -> [fmt |-> "I", op |-> 103]
      [] label = "store"  -> [fmt |-> "S", op |-> 35]
      [] label = "branch" -> [fmt |-> "B", op |-> 99]
      [] label = "lui"    -> [fmt |-> "U", op |-> 55]
      [] label = "auipc"  -> [fmt |-> "U", op |-> 23]
      [] label = "jal"    -> [fmt |-> "J", op |-> 111]

formatter(fmt, instr) ==
    CASE fmt = "I" -> pack_i(instr)
      [] fmt = "S" -> pack_s(instr)
      [] fmt = "B" -> pack_b(instr)
      [] fmt = "U" -> pack_u(instr)
      [] fmt = "J" -> pack_j(instr)

\* line['instr'] = formatter(line['instr']); yield subv.format(line)
format_yield(segment, r) ==
    IF ~r.ok THEN r ELSE Ok([segment |-> segment, out |-> InstrLine(r.val)])

\* a variant of format_line that rewrites the instruction lines of every
\* segment
format_line_anysegment(segment, line) ==
    IF line.type = "instr"
    THEN LET op == line.instr[1]
         IN  IF Len(op) # 2 THEN Err("AssertionError")
             ELSE IF op[2] \notin {T(m) : m \in Mnemonics} THEN Err("ValueError")
             ELSE IF op[1] # IntHead(Py(instr_map(op[2].name).op))
                  THEN Err("ValueError")
             ELSE format_yield(segment,
                               formatter(instr_map(op[2].name).fmt, line.instr))
    ELSE Ok([segment |-> IF line.type = "segment"
                         THEN <<line.segment[1]>> ELSE segment,
             out |-> line])

\* one iteration of format()'s loop: the new `segment` and the line yielded
format_line(segment, line) ==
    IF segment = <<"code">> /\ line.type = "instr"
    THEN LET op == line.instr[1]
         IN  IF Len(op) # 2 THEN Err("AssertionError")
             ELSE IF op[2] \notin {T(m) : m \in Mnemonics} THEN Err("ValueError")
             ELSE IF op[1] # IntHead(Py(instr_map(op[2].name).op))
                  THEN Err("ValueError")
             ELSE format_yield(segment,
                               formatter(instr_map(op[2].name).fmt, line.instr))
    ELSE Ok([segment |-> IF line.type = "segment"
                         THEN <<line.segment[1]>> ELSE segment,
             out |-> line])

-----------------------------------------------------------------------------
(* survey.py                                                               *)

\* a variant of observe that reduces an offset modulo 2^32 instead of
\* range-checking it
observe_wrapping(part, rel_addr, labels) ==
    IF ~is_reference(part) THEN Ok(part)
    ELSE LET ref == parse_reference(part)
         IN  IF ~ref.ok THEN ref
             ELSE IF ref.val.label \notin DOMAIN labels THEN Err("AssertionError")
             ELSE LET a == labels[ref.val.label]
                      d == Sub(a, rel_addr)
                      r == IF ref.val.mode = "imm" THEN u(a, 32)
                           ELSE Ok(<<And(d, Sub(Shl(One, 32), One)), 32>>)
                  IN  IF ~r.ok THEN r
                      ELSE IF ref.val.slice = <<>> THEN Err("KeyError")
                      ELSE LET s == slice(r.val, ref.val.slice[1], ref.val.slice[2])
                           IN  IF s.ok THEN Ok(Field(s.val[1], s.val[2])) ELSE s

observe(part, rel_addr, labels) ==
    IF ~is_reference(part) THEN Ok(part)
    ELSE LET ref == parse_reference(part)
         IN  IF ~ref.ok THEN ref
             ELSE IF ref.val.label \notin DOMAIN labels THEN Err("AssertionError")
             ELSE LET a == labels[ref.val.label]
                      r == IF ref.val.mode = "imm" THEN u(a, 32)
                           ELSE i(Sub(a, rel_addr), 32)
                  IN  IF ~r.ok THEN r
                      ELSE IF ref.val.slice = <<>> THEN Err("KeyError")
                      ELSE LET s == slice(r.val, ref.val.slice[1], ref.val.slice[2])
                           IN  IF s.ok THEN Ok(Field(s.val[1], s.val[2])) ELSE s

\* int(part[1]) of a part whose head is an int
int_tag(part) ==
    IF Len(part) < 2 THEN Err("IndexError")
    ELSE IF part[2].name # "" \/ part[2].num = <<>> THEN Err("ValueError")
    ELSE Ok(part[2].num[1])

\* the width survey's first loop adds for one part
part_bits(part) ==
    IF is_reference(part)
    THEN LET ref == parse_reference(part)
         IN  IF ref.ok THEN Ok(ref.val.size) ELSE ref
    ELSE int_tag(part)

\* the sum of the widths of parts, or the first exception
RECURSIVE line_bits(_)
line_bits(parts) ==
    IF parts = <<>> THEN Ok(0)
    ELSE LET b == part_bits(Head(parts))
             r == line_bits(Tail(parts))
         IN  IF ~b.ok THEN b
             ELSE IF ~r.ok THEN r
             ELSE Ok(b.val + r.val)

\* a variant of Bind that keeps the address a label already has
Bind_keepfirst(labels, label, a) ==
    [l \in DOMAIN labels \cup {label} |->
        IF l \in DOMAIN labels THEN labels[l] ELSE a]

\* map[label] = addr
Bind(labels, label, a) ==
    [l \in DOMAIN labels \cup {label} |-> IF l = label THEN a ELSE labels[l]]

\* a variant of survey_read in which an instruction does not advance addr
survey_read_noadvance(st, line) ==
    LET q == Append(st.queue, [line |-> line, addr |-> st.addr])
    IN  CASE line.type = "segment" ->
               IF Len(line.segment) # 2 THEN Err("ValueError")
               ELSE Ok([queue |-> q, map |-> st.map, addr |-> line.segment[2]])
          [] line.type = "label" ->
               Ok([queue |-> q, map |-> Bind(st.map, line.label, st.addr),
                   addr |-> st.addr])
          [] line.type = "instr" ->
               LET b == line_bits(line.instr)
               IN  IF ~b.ok THEN b
                   ELSE IF b.val % 8 # 0 THEN Err("AssertionError")
                   ELSE Ok([queue |-> q, map |-> st.map, addr |-> st.addr])
          [] OTHER -> Ok([queue |-> q, map |-> st.map, addr |-> st.addr])

\* one iteration of survey()'s first loop on state [queue, map, addr];
\* the line is queued before anything can raise
survey_read(st, line) ==
    LET q == Append(st.queue, [line |-> line, addr |-> st.addr])
    IN  CASE line.type = "segment" ->
               IF Len(line.segment) # 2 THEN Err("ValueError")
               ELSE Ok([queue |-> q, map |-> st.map, addr |-> line.segment[2]])
          [] line.type = "label" ->
               Ok([queue |-> q, map |-> Bind(st.map, line.label, st.addr),
                   addr |-> st.addr])
          [] line.type = "instr" ->
               LET b == line_bits(line.instr)
               IN  IF ~b.ok THEN b
                   ELSE IF b.val % 8 # 0 THEN Err("AssertionError")
                   ELSE Ok([queue |-> q, map |-> st.map,
                            addr |-> Add(st.addr, Py(b.val \div 8))])
          [] OTHER -> Ok([queue |-> q, map |-> st.map, addr |-> st.addr])

\* one iteration of survey()'s second loop: the lines it yields (none, one)
survey_resolve(entry, labels) ==
    CASE entry.line.type = "instr" ->
           LET obs == [k \in 1..Len(entry.line.instr) |->
                          observe(entry.line.instr[k], entry.addr, labels)]
           IN  IF FirstErr(obs).ok
               THEN Ok(<<InstrLine([k \in 1..Len(obs) |-> obs[k].val])>>)
               ELSE FirstErr(obs)
      [] entry.line.type = "segment" -> Ok(<<entry.line>>)
      [] OTHER -> Ok(<<>>)

-----------------------------------------------------------------------------
(* pack.py                                                                 *)

\* bits.from_part(p): int(part[0]) and int(part[1])
field_of(part) ==
    IF is_reference(part) THEN Err("ValueError")
    ELSE LET w == int_tag(part)
         IN  IF w.ok THEN Ok(from_part(part[1].val, w.val)) ELSE w

\* a variant of byteify that emits the highest byte first
byteify_bigendian(word) ==
    IF word[2] % 8 # 0 THEN Err("AssertionError")
    ELSE LET n == IF word[2] > 0 THEN word[2] \div 8 ELSE 0
         IN  Ok([k \in 1..n |-> <<IntHead(slice(word, 8 * (n - k) + 7, 8 * (n - k)).val[1])>>])

\* byte[:1] of each slice is a part without tags
byteify(word) ==
    IF word[2] % 8 # 0 THEN Err("AssertionError")
    ELSE LET n == IF word[2] > 0 THEN word[2] \div 8 ELSE 0
         IN  Ok([k \in 1..n |-> <<IntHead(slice(word, 8 * (k - 1) + 7, 8 * (k - 1)).val[1])>>])

\* one iteration of pack()'s loop: the line yielded
pack_line(line) ==
    IF line.type = "instr"
    THEN LET fs == [k \in 1..Len(line.instr) |-> field_of(line.instr[k])]
         IN  IF ~FirstErr(fs).ok THEN FirstErr(fs)
             ELSE LET total == concat([k \in 1..Len(fs) |-> fs[k].val])
                      bytes == byteify(total)
                  IN  IF bytes.ok THEN Ok(InstrLine(bytes.val)) ELSE bytes
    ELSE Ok(line)

-----------------------------------------------------------------------------
(* whole runs of a stage over a stream: [ok, lines], lines being what was  *)
(* yielded before the stage raised or finished                             *)

RECURSIVE format_from(_, _, _)
\* format went through one iteration with the result r
format_after(rest, done, r) ==
    IF ~r.ok THEN [ok |-> FALSE, lines |-> done]
    ELSE format_from(rest, r.val.segment, Append(done, r.val.out))

format_from(lines, segment, done) ==
    IF lines = <<>> THEN [ok |-> TRUE, lines |-> done]
    ELSE format_after(Tail(lines), done, format_line(segment, Head(lines)))

format(lines) == format_from(lines, <<>>, <<>>)

RECURSIVE survey_pass1(_, _)
\* the first loop went through one iteration with the result r
survey_after1(rest, r) == IF ~r.ok THEN r ELSE survey_pass1(rest, r.val)

survey_pass1(lines, st) ==
    IF lines = <<>> THEN Ok(st)
    ELSE survey_after1(Tail(lines), survey_read(st, Head(lines)))

RECURSIVE survey_pass2(_, _, _)
\* the second loop went through one iteration with the result r
survey_after2(rest, labels, done, r) ==
    IF ~r.ok THEN [ok |-> FALSE, lines |-> done]
    ELSE survey_pass2(rest, labels, done \o r.val)

survey_pass2(q, labels, done) ==
    IF q = <<>> THEN [ok |-> TRUE, lines |-> done]
    ELSE survey_after2(Tail(q), labels, done, survey_resolve(Head(q), labels))

SurveyStart == [queue |-> <<>>, map |-> <<>>, addr |-> Py(-1)]

\* the second loop, after a first loop that ended with p
survey_second(p) ==
    IF ~p.ok THEN [ok |-> FALSE, lines |-> <<>>]
    ELSE survey_pass2(p.val.queue, p.val.map, <<>>)

survey(lines) == survey_second(survey_pass1(lines, SurveyStart))

RECURSIVE pack_from(_, _)
\* pack went through one iteration with the result r
pack_after(rest, done, r) ==
    IF ~r.ok THEN [ok |-> FALSE, lines |-> done]
    ELSE pack_from(rest, Append(done, r.val))

pack_from(lines, done) ==
    IF lines = <<>> THEN [ok |-> TRUE, lines |-> done]
    ELSE pack_after(Tail(lines), done, pack_line(Head(lines)))

pack(lines) == pack_from(lines, <<>>)

-----------------------------------------------------------------------------
(* Idle values of each program's variables                                 *)

Pending == Err("pending")

IdleCall   == call = [fn |-> "none"] /\ ret = Pending
IdleFormat == fSegment = <<>> /\ fLine = EmptyLine /\ fOut = <<>> /\ fPc = "run"
IdleSurvey ==
    /\ queue = <<>> /\ map = <<>> /\ addr = Py(-1)
    /\ sPc = "pass1" /\ sPos = 0 /\ sOut = <<>>
IdlePack   == pLine = EmptyLine /\ pOut = <<>> /\ pPc = "run"
IdlePipe   ==
    /\ src = <<>> /\ stage = 0
    /\ formatted = [ok |-> TRUE, lines |-> <<>>]
    /\ surveyed  = [ok |-> TRUE, lines |-> <<>>]
    /\ packed    = [ok |-> TRUE, lines |-> <<>>]
IdleElf    ==
    /\ segments = <<>> /\ cursor = 0 /\ segment_start = 0
    /\ file = <<>> /\ ePos = 0 /\ ePc = "read"

-----------------------------------------------------------------------------
(* CallSpec: the functions of bits.py and survey.observe applied to        *)
(* arguments drawn from bounded sets                                       *)

\* widths 1..MaxWidth are covered exhaustively
MaxWidth == 4

\* 32-bit addresses: 0x0, 0x100, 0x110, 0x7fffffff, 0x80000000,
\* 0x80000034, 0xfffffffc, 0xffffffff
Addrs ==
    {Norm(0, 0), Norm(0, 256), Norm(0, 272), Norm(32767, 65535),
     Norm(32768, 0), Norm(32768, 52), Norm(65535, 65532), Norm(65535, 65535)}

\* integers around the bounds of 32-bit fields: 2^31 - 1, 2^31, 2^32 - 1,
\* 2^32, -2^31, -2^31 - 1, and 0x12345678
WideNums ==
    {Norm(32767, 65535), Norm(32768, 0), Norm(65535, 65535), Norm(65536, 0),
     Norm(-32768, 0), Norm(-32769, 65535), Norm(4660, 22136)}

RangeInputs ==
    [fn : {"u", "i"}, bits : 1..MaxWidth,
     num : {Py(n) : n \in (-(2^MaxWidth) - 2)..(2^MaxWidth + 2)}]
    \cup [fn : {"u", "i"}, bits : {12, 20, 31, 32},
          num : WideNums \cup {Py(n) : n \in {-2049, -2048, -1, 0, 2047, 2048,
                                              4095, 4096, 524287, 524288,
                                              -524288, -524289}}]

SliceInputs ==
    UNION {[fn : {"slice"}, x : {<<Py(n), w>> : n \in 0..(2^w - 1)},
            hi : -1..w, lo : -1..w] : w \in 1..MaxWidth}
    \cup [fn : {"slice"}, x : {<<Norm(4660, 22136), 32>>},
          hi : {7, 15, 23, 31, 32}, lo : {0, 8, 16, 24}]

\* <<hi, mid, lo>> with 0 <= lo <= mid < hi < w
Splits(w) ==
    {t \in (0..(w - 1)) \X (0..(w - 1)) \X (0..(w - 1)) :
        t[3] <= t[2] /\ t[2] < t[1]}

\* the two slices of x around mid, handed to concat in either order
ConcatCall(o, x, t) ==
    [fn |-> "concat", order |-> o, x |-> x, hi |-> t[1], mid |-> t[2], lo |-> t[3],
     parts |-> IF o = "low_first"
               THEN <<slice(x, t[2], t[3]).val, slice(x, t[1], t[2] + 1).val>>
               ELSE <<slice(x, t[1], t[2] + 1).val, slice(x, t[2], t[3]).val>>]

ConcatInputs ==
    UNION {{ConcatCall(o, <<Py(n), w>>, t) :
              o \in {"low_first", "high_first"}, n \in 0..(2^w - 1), t \in Splits(w)}
           : w \in 2..MaxWidth}
    \cup {[fn |-> "concat", order |-> "doctest", x |-> <<Py(205), 8>>,
           hi |-> 7, mid |-> 0, lo |-> 0,
           parts |-> <<<<Py(1), 1>>, <<Py(6), 4>>, <<Py(6), 3>>>>]}

ObserveSlices == {<<31, 0>>, <<31, 12>>, <<11, 0>>, <<20, 20>>, <<10, 1>>, <<7, 0>>}

ObserveInputs ==
    {[fn |-> "observe",
      part |-> <<RefHead("x", s), TN(m, s[1] - s[2] + 1)>>,
      rel_addr |-> r,
      labels |-> [l \in {"x"} |-> a]] :
        s \in ObserveSlices, m \in {"imm", "off"}, r \in Addrs, a \in Addrs}
    \cup {[fn |-> "observe", part |-> <<RefHead("y", <<7, 0>>), TN("off", 8)>>,
           rel_addr |-> Zero, labels |-> [l \in {"x"} |-> Zero]],
          [fn |-> "observe", part |-> Field(Py(3), 3),
           rel_addr |-> Zero, labels |-> <<>>]}

\* the slices of the references handed to slice_bit_or_ref, and the bits
\* asked of them
RefSlices == {<<31, 0>>, <<31, 12>>, <<11, 0>>, <<20, 1>>, <<7, 4>>, <<32, 1>>}
SubBits   == {0, 1, 3, 4, 7, 10, 11, 12, 19, 20, 31}

SliceRefInputs ==
    [fn : {"slice_bit_or_ref"},
     val : {<<RefHead("x", s), TN(m, s[1] - s[2] + 1)>> :
               s \in RefSlices, m \in {"imm", "off"}}
           \cup {<<RefHead("x", <<11, 0>>), TN("imm", 12), T("far")>>,
                 <<RefHead("x", <<>>), TN("imm", 12)>>,
                 Field(Norm(4660, 22136), 32)},
     hi : SubBits, lo : SubBits]
    \cup UNION {[fn : {"slice_bit_or_ref"},
                 val : {Field(Py(n), w) : n \in 0..(2^w - 1)},
                 hi : -1..w, lo : -1..w] : w \in 1..MaxWidth}

CallInit ==
    /\ call \in RangeInputs \cup SliceInputs \cup ConcatInputs \cup ObserveInputs
               \cup SliceRefInputs
    /\ ret = Pending
    /\ IdleFormat /\ IdleSurvey /\ IdlePack /\ IdlePipe /\ IdleElf

ApplyU ==
    /\ call.fn = "u" /\ ret = Pending
    /\ ret' = u(call.num, call.bits)
    /\ UNCHANGED <<call, formatVars, surveyVars, packVars, pipeVars, elfVars>>

ApplyI ==
    /\ call.fn = "i" /\ ret = Pending
    /\ ret' = i(call.num, call.bits)
    /\ UNCHANGED <<call, formatVars, surveyVars, packVars, pipeVars, elfVars>>

ApplySlice ==
    /\ call.fn = "slice" /\ ret = Pending
    /\ ret' = slice(call.x, call.hi, call.lo)
    /\ UNCHANGED <<call, formatVars, surveyVars, packVars, pipeVars, elfVars>>

ApplyConcat ==
    /\ call.fn = "concat" /\ ret = Pending
    /\ ret' = Ok(concat(call.parts))
    /\ UNCHANGED <<call, formatVars, surveyVars, packVars, pipeVars, elfVars>>

ApplyObserve ==
    /\ call.fn = "observe" /\ ret = Pending
    /\ ret' = observe(call.part, call.rel_addr, call.labels)
    /\ UNCHANGED <<call, formatVars, surveyVars, packVars, pipeVars, elfVars>>

ApplySliceRef ==
    /\ call.fn = "slice_bit_or_ref" /\ ret = Pending
    /\ ret' = slice_bit_or_ref(call.val, call.hi, call.lo)
    /\ UNCHANGED <<call, formatVars, surveyVars, packVars, pipeVars, elfVars>>

CallNext ==
    ApplyU \/ ApplyI \/ ApplySlice \/ ApplyConcat \/ ApplyObserve \/ ApplySliceRef

CallSpec == CallInit /\ [][CallNext]_vars

-----------------------------------------------------------------------------
(* Arithmetic the properties are stated in                                 *)

\* 2^w as a Python int, w < 46
Pow2(w) == IF w < 16 THEN Norm(0, 2^w) ELSE Norm(2^(w - 16), 0)

\* n mod 2^w, w < 46
ModPow2(n, w) ==
    IF w < 16 THEN <<0, n[2] % 2^w>> ELSE <<n[1] % 2^(w - 16), n[2]>>

\* bit k of the two's-complement integer n
BitAt(n, k) ==
    IF k < 16 THEN (n[2] \div 2^k) % 2 ELSE (n[1] \div 2^(k - 16)) % 2

\* bits k..k+count-1 of n as a small number, count <= 16
RECURSIVE SumBits(_, _, _)
SumBits(n, k, count) ==
    IF count <= 0 THEN 0
    ELSE BitAt(n, k) + 2 * SumBits(n, k + 1, count - 1)

\* the number whose bits, low to high, are bits lo..hi of n
BitsValue(n, hi, lo) ==
    LET w == hi - lo + 1
    IN  IF w <= 16 THEN <<0, SumBits(n, lo, w)>>
        ELSE <<SumBits(n, lo + 16, w - 16), SumBits(n, lo, 16)>>

\* the small int a Python int stands for
ToInt(a) == a[1] * Base + a[2]

-----------------------------------------------------------------------------
(* Properties of bits.py and survey.observe (CallSpec)                     *)

\* C5 as claimed: for every label address and instruction address in
\* [0, 2^32) and every slice 0 <= lo <= hi <= 31, an off-mode reference
\* label[hi:lo] resolves without error to bits [hi:lo] of
\* (label address - instruction address) mod 2^32.
C5_OffsetsWrapModulo ==
    (/\ call.fn = "observe" /\ ret # Pending
     /\ is_reference(call.part) /\ call.part[2].name = "off"
     /\ call.part[1].label \in DOMAIN call.labels)
    => LET d  == Sub(call.labels[call.part[1].label], call.rel_addr)
           sl == call.part[1].slice
       IN  ret = Ok(Field(BitsValue(ModPow2(d, 32), sl[1], sl[2]), sl[1] - sl[2] + 1))

\* C5 as amended: the offset is resolved to bits [hi:lo] of
\* (label address - instruction address) mod 2^32 exactly when the difference
\* lies in the signed 32-bit range [-2^31, 2^31 - 1]; outside that range
\* bits.i raises ValueError and nothing is resolved.
C5_OffsetsInSignedRange ==
    (/\ call.fn = "observe" /\ ret # Pending
     /\ is_reference(call.part) /\ call.part[2].name = "off"
     /\ call.part[1].label \in DOMAIN call.labels)
    => LET d  == Sub(call.labels[call.part[1].label], call.rel_addr)
           sl == call.part[1].slice
       IN  IF Le(Neg(Pow2(31)), d) /\ Lt(d, Pow2(31))
           THEN ret = Ok(Field(BitsValue(ModPow2(d, 32), sl[1], sl[2]), sl[1] - sl[2] + 1))
           ELSE ret = Err("ValueError")

\* a backward offset (label 0x100, instruction 0x110) resolved to the low
\* twelve bits of 0xfffffff0
C5_Witness ==
    /\ call.fn = "observe" /\ call.part = <<RefHead("x", <<11, 0>>), TN("off", 12)>>
    /\ call.labels["x"] = Norm(0, 256) /\ call.rel_addr = Norm(0, 272)
    /\ ret = Ok(Field(Py(4080), 12))

\* C8 as claimed: concat(slice(x, hi, mid+1), slice(x, mid, lo)) equals
\* slice(x, hi, lo) for 0 <= lo <= mid < hi < x.width.
C8_HighSliceFirst ==
    (call.fn = "concat" /\ call.order = "high_first" /\ ret # Pending)
    => ret.val = slice(call.x, call.hi, call.lo).val

\* C8 as amended: concat lays its arguments out low to high, so it is
\* concat(slice(x, mid, lo), slice(x, hi, mid+1)) that equals
\* slice(x, hi, lo) for 0 <= lo <= mid < hi < x.width; and slice(p, hi, lo)
\* is ((p.value >> lo) & (2^(hi-lo+1) - 1), hi-lo+1).
C8_LowSliceFirst ==
    /\ (call.fn = "concat" /\ call.order = "low_first" /\ ret # Pending)
       => /\ ret.val = slice(call.x, call.hi, call.lo).val
          /\ ret.val[2] = call.parts[1][2] + call.parts[2][2]
          /\ ToInt(ret.val[1]) = ToInt(call.parts[1][1])
                                 + ToInt(call.parts[2][1]) * 2^(call.parts[1][2])
    /\ (/\ call.fn = "slice" /\ ret # Pending
        /\ 0 <= call.lo /\ call.lo <= call.hi /\ call.hi < call.x[2]
        /\ call.x[2] <= MaxWidth)
       => ret = Ok(<<Py((ToInt(call.x[1]) \div 2^(call.lo))
                        % 2^(call.hi - call.lo + 1)),
                     call.hi - call.lo + 1>>)

\* x = 0b0110 split at mid = 1: the low-first concat gives x back, the
\* high-first one does not
C8_Witness ==
    /\ call.fn = "concat" /\ call.order = "low_first"
    /\ call.x = <<Py(6), 4>> /\ call.hi = 3 /\ call.mid = 1 /\ call.lo = 0
    /\ ret = Ok(<<Py(6), 4>>)
    /\ concat(<<call.parts[2], call.parts[1]>>) # ret.val

\* C9: u(n, w) succeeds exactly when 0 <= n < 2^w and then returns (n, w);
\* i(n, w) succeeds exactly when -2^(w-1) <= n <= 2^(w-1) - 1 and then
\* returns what u(n mod 2^w, w) returns; every other call raises ValueError;
\* so every bit-field returned has 0 <= value < 2^width.
C9_RangeChecks ==
    (call.fn \in {"u", "i"} /\ ret # Pending)
    => LET n  == call.num
           w  == call.bits
           ok == IF call.fn = "u"
                 THEN Le(Zero, n) /\ Lt(n, Pow2(w))
                 ELSE Le(Neg(Pow2(w - 1)), n) /\ Le(n, Sub(Pow2(w - 1), One))
       IN  IF ok
           THEN /\ ret = Ok(<<ModPow2(n, w), w>>)
                /\ call.fn = "u" => ret.val[1] = n
                /\ call.fn = "i" => ret = u(ModPow2(n, w), w)
                /\ Le(Zero, ret.val[1]) /\ Lt(ret.val[1], Pow2(ret.val[2]))
           ELSE ret = Err("ValueError")

\* i(-2^31, 32) returns (2^31, 32)
C9_Witness ==
    /\ call.fn = "i" /\ call.bits = 32 /\ call.num = Neg(Pow2(31))
    /\ ret = Ok(<<Pow2(31), 32>>)

-----------------------------------------------------------------------------
(* FormatSpec: format.format reading lines from its input, one loop        *)
(* iteration per step                                                      *)

\* an operand with an int head, a reference operand
Opd(v, tags)    == <<IntHead(Py(v))>> \o tags
RefOpd(l, hilo, tags) == <<RefHead(l, hilo)>> \o tags

\* immediates: 0, 1, -2, 0x10010, 0x5a5a5, 2^19 - 1, -2^19, -0x55556, and
\* the first values outside the signed 20-bit range
Imm20 == {0, 1, -2, 65552, 370085, 524287, -524288, -349526, 524288, -524289}

\* immediates: 0, 0x48, -2, 0x555, 2^11 - 1, -2^11, -0x556, and values
\* outside the signed 12-bit range
Imm12 == {0, 72, -2, 1365, 2047, -2048, -1366, 2048, -2049, 4095}

\* register numbers, the last out of range
Regs == {5, 32}

\* symbolic immediates: bare and sliced labels, either mode, several widths
RefImms ==
    {RefOpd("x", sl, <<TN(m, w)>>) :
        sl \in {<<>>, <<31, 12>>, <<11, 0>>, <<20, 1>>, <<12, 1>>},
        m \in {"imm", "off"}, w \in {12, 20}}
    \cup {RefOpd("x", <<>>, <<T("rd")>>), RefOpd("x", <<>>, <<>>),
          RefOpd("x", <<>>, <<TN("off", 20), T("far")>>)}

ULines(imms) ==
    {InstrLine(<<Opd(instr_map(m).op, <<T(m)>>), Opd(rd, <<T("rd")>>), imm>>) :
        m \in {"lui", "auipc"}, rd \in Regs, imm \in imms}

JLines(imms) ==
    {InstrLine(<<Opd(111, <<T("jal")>>), Opd(rd, <<T("rd"), TN("x", rd)>>), imm>>) :
        rd \in Regs, imm \in imms}

ILines(imms) ==
    {InstrLine(<<Opd(instr_map(m).op, <<T(m)>>), Opd(sb, <<T("subop")>>),
                 Opd(6, <<T("rd")>>), Opd(rs, <<T("rs")>>), imm>>) :
        m \in {"load", "opi", "jalr"}, sb \in {7}, rs \in {31, 32},
        imm \in imms}

SLines(imms) ==
    {InstrLine(<<Opd(35, <<T("store")>>), Opd(sb, <<T("subop"), T("word")>>),
                 Opd(rs1, <<T("rs")>>), Opd(6, <<T("rs")>>), imm>>) :
        sb \in {2, 8}, rs1 \in {31}, imm \in imms}

BLines(imms) ==
    {InstrLine(<<Opd(99, <<T("branch")>>), Opd(sb, <<T("subop")>>),
                 Opd(rs1, <<T("rs")>>), Opd(31, <<T("rs")>>), imm>>) :
        sb \in {0, 5}, rs1 \in {21}, imm \in imms}

\* lines of the wrong shape
BadLines ==
    {InstrLine(<<Opd(55, <<T("jal")>>), Opd(5, <<T("rd")>>), Opd(1, <<TN("off", 20)>>)>>),
     InstrLine(<<Opd(51, <<T("opr")>>), Opd(5, <<T("rd")>>), Opd(1, <<TN("imm", 20)>>)>>),
     InstrLine(<<Opd(55, <<>>), Opd(5, <<T("rd")>>), Opd(1, <<TN("imm", 20)>>)>>),
     InstrLine(<<Opd(55, <<T("lui"), T("x")>>), Opd(5, <<T("rd")>>), Opd(1, <<TN("imm", 20)>>)>>),
     InstrLine(<<RefOpd("lui", <<>>, <<T("lui")>>), Opd(5, <<T("rd")>>), Opd(1, <<TN("imm", 20)>>)>>),
     InstrLine(<<Opd(55, <<T("lui")>>), Opd(5, <<T("rd")>>)>>),
     InstrLine(<<Opd(55, <<T("lui")>>), Opd(5, <<T("rd")>>), Opd(1, <<TN("imm", 20)>>), Opd(0, <<T("rs")>>)>>),
     InstrLine(<<Opd(55, <<T("lui")>>), Opd(5, <<T("rs")>>), Opd(1, <<TN("imm", 20)>>)>>),
     InstrLine(<<Opd(55, <<T("lui")>>), Opd(5, <<>>), Opd(1, <<TN("imm", 20)>>)>>),
     InstrLine(<<Opd(55, <<T("lui")>>), Opd(5, <<T("rd")>>), Opd(1, <<TN("imm", 12)>>)>>),
     InstrLine(<<Opd(55, <<T("lui")>>), Opd(5, <<T("rd")>>), Opd(1, <<TN("off", 20)>>)>>),
     InstrLine(<<Opd(55, <<T("lui")>>), RefOpd("x", <<>>, <<T("rd")>>), Opd(1, <<TN("imm", 20)>>)>>),
     InstrLine(<<Opd(111, <<T("jal")>>), Opd(0, <<T("rd")>>), Opd(0, <<TN("imm", 20)>>)>>),
     InstrLine(<<Opd(19, <<T("opi")>>), Opd(6, <<T("rd")>>), Opd(0, <<T("subop")>>),
                 Opd(0, <<T("rs")>>), Opd(72, <<TN("imm", 12)>>)>>),
     InstrLine(<<Opd(19, <<T("opi")>>), Opd(0, <<T("subop")>>), Opd(6, <<T("rd")>>),
                 Opd(0, <<T("rs")>>), Opd(72, <<TN("off", 12)>>)>>),
     InstrLine(<<Opd(35, <<T("store")>>), Opd(2, <<T("subop")>>), Opd(5, <<T("rs")>>),
                 Opd(6, <<T("rd")>>), Opd(0, <<TN("off", 12)>>)>>),
     InstrLine(<<Opd(99, <<T("branch")>>), Opd(0, <<T("subop")>>), Opd(6, <<T("rs")>>),
                 Opd(0, <<T("rs")>>), Opd(0, <<TN("imm", 12)>>)>>),
     InstrLine(<<Opd(99, <<T("branch")>>), Opd(0, <<T("subop")>>), Opd(6, <<T("rs")>>),
                 Opd(0, <<T("rs")>>)>>)}

\* lines format echoes: headers, a label, an empty line, a bit-field line
EchoLines ==
    {SegmentLine(<<"code", Norm(32768, 0)>>), SegmentLine(<<"code">>),
     SegmentLine(<<"data", Norm(0, 4096)>>), LabelLine("x"), EmptyLine,
     InstrLine(<<Field(Py(55), 7), Field(Py(5), 5), Field(Py(65552), 20)>>)}

ConcreteLines ==
    ULines({Opd(v, <<TN("imm", 20)>>) : v \in Imm20})
    \cup JLines({Opd(v, <<TN("off", 20)>>) : v \in Imm20})
    \cup ILines({Opd(v, <<TN("imm", 12)>>) : v \in Imm12})
    \cup SLines({Opd(v, <<TN("off", 12)>>) : v \in Imm12})
    \cup BLines({Opd(v, <<TN("off", 12)>>) : v \in Imm12})

SymbolicLines ==
    ULines(RefImms) \cup JLines(RefImms) \cup ILines(RefImms)
    \cup SLines(RefImms) \cup BLines(RefImms)

FormatInputs == ConcreteLines \cup SymbolicLines \cup BadLines \cup EchoLines

FormatInit == IdleCall /\ IdleFormat /\ IdleSurvey /\ IdlePack /\ IdlePipe /\ IdleElf

\* one iteration of `for line in iter`: read, then yield or raise
FormatStep ==
    /\ fPc = "run"
    /\ \E line \in FormatInputs :
         \E r \in {format_line(fSegment, line)} :
             /\ fLine' = line
             /\ IF r.ok
                THEN fSegment' = r.val.segment /\ fOut' = <<r.val.out>>
                     /\ fPc' = "run"
                ELSE fSegment' = fSegment /\ fOut' = <<>> /\ fPc' = "failed"
    /\ UNCHANGED <<bitsVars, surveyVars, packVars, pipeVars, elfVars>>

FormatNext == FormatStep

FormatSpec == FormatInit /\ [][FormatNext]_vars


-----------------------------------------------------------------------------
(* The RV32I base instruction formats, stated apart from format.py         *)

\* the fields of a format from bit 0 upwards, <<role, hi, lo>>: hi and lo
\* are bit positions within the operand, for "imm" within the immediate
RV32I(fmt) ==
    CASE fmt = "U" -> << <<"op", 6, 0>>, <<"rd", 4, 0>>, <<"imm", 31, 12>> >>
      [] fmt = "I" -> << <<"op", 6, 0>>, <<"rd", 4, 0>>, <<"sub", 2, 0>>,
                         <<"rs1", 4, 0>>, <<"imm", 11, 0>> >>
      [] fmt = "S" -> << <<"op", 6, 0>>, <<"imm", 4, 0>>, <<"sub", 2, 0>>,
                         <<"rs1", 4, 0>>, <<"rs2", 4, 0>>, <<"imm", 11, 5>> >>
      [] fmt = "J" -> << <<"op", 6, 0>>, <<"rd", 4, 0>>, <<"imm", 19, 12>>,
                         <<"imm", 11, 11>>, <<"imm", 10, 1>>, <<"imm", 20, 20>> >>
      [] fmt = "B" -> << <<"op", 6, 0>>, <<"imm", 11, 11>>, <<"imm", 4, 1>>,
                         <<"sub", 2, 0>>, <<"rs1", 4, 0>>, <<"rs2", 4, 0>>,
                         <<"imm", 10, 5>>, <<"imm", 12, 12>> >>

\* the immediate bits an instruction of the format encodes, <<hi, lo>>
ImmRange(fmt) ==
    CASE fmt = "U" -> <<31, 12>>
      [] fmt = "I" -> <<11, 0>>
      [] fmt = "S" -> <<11, 0>>
      [] fmt = "J" -> <<20, 1>>
      [] fmt = "B" -> <<12, 1>>

\* the role tag of the format's immediate operand
ImmRole(fmt) ==
    CASE fmt = "U" -> TN("imm", 20)
      [] fmt = "I" -> TN("imm", 12)
      [] fmt = "S" -> TN("off", 12)
      [] fmt = "J" -> TN("off", 20)
      [] fmt = "B" -> TN("off", 12)

\* the roles of the operands of a written instruction, in written order
Written(fmt) ==
    CASE fmt = "U" -> <<"op", "rd", "imm">>
      [] fmt = "J" -> <<"op", "rd", "imm">>
      [] fmt = "I" -> <<"op", "sub", "rd", "rs1", "imm">>
      [] fmt = "S" -> <<"op", "sub", "rs1", "rs2", "imm">>
      [] fmt = "B" -> <<"op", "sub", "rs1", "rs2", "imm">>

\* the first tag an operand of the role must carry; none for the opcode
RoleTag(fmt, role) ==
    CASE role = "op"  -> <<>>
      [] role = "rd"  -> <<T("rd")>>
      [] role = "sub" -> <<T("subop")>>
      [] role = "rs1" -> <<T("rs")>>
      [] role = "rs2" -> <<T("rs")>>
      [] role = "imm" -> <<ImmRole(fmt)>>

\* bits lo..hi of the natural number n
NatSlice(n, hi, lo) == (n \div 2^lo) % 2^(hi - lo + 1)

\* the written operand with the role
OperandOf(fmt, instr, role) ==
    instr[CHOOSE k \in 1..Len(Written(fmt)) : Written(fmt)[k] = role]

\* the value the field f of the layout must hold for the written
\* instruction: the immediate v stands, reduced modulo 2^W, for the W bits
\* of ImmRange
FieldValue(fmt, instr, f) ==
    LET v == ToInt(OperandOf(fmt, instr, f[1])[1].val)
        r == ImmRange(fmt)
    IN  IF f[1] = "imm"
        THEN NatSlice(v % 2^(r[1] - r[2] + 1), f[2] - r[2], f[3] - r[2])
        ELSE NatSlice(v, f[2], f[3])

\* the bit of the word at which field k of the layout starts
RECURSIVE FieldOffset(_, _)
FieldOffset(layout, k) ==
    IF k = 1 THEN 0
    ELSE FieldOffset(layout, k - 1)
         + (layout[k - 1][2] - layout[k - 1][3] + 1)

\* the operands of the line are all concrete integers
AllConcrete(line) == \A k \in 1..Len(line.instr) : ~line.instr[k][1].ref

\* format has just emitted an instruction for an instruction line of a
\* code segment
Emitted ==
    /\ fPc = "run" /\ fOut # <<>>
    /\ fSegment = <<"code">> /\ fLine.type = "instr"

\* C1: for an accepted instruction line of a code segment whose operands
\* are all concrete, the emitted fields are, in order, the fields of the
\* RV32I format of the mnemonic; concatenated low to high they form a 32
\* bit word that holds each field at its RV32I position, the immediate
\* taken modulo 2^W supplying the bits of the format's default range, and
\* whose low 7 bits are the canonical opcode of the mnemonic
C1_FieldsFormRV32IWord ==
    (Emitted /\ AllConcrete(fLine)) =>
        LET m      == fLine.instr[1][2].name
            fmt    == instr_map(m).fmt
            layout == RV32I(fmt)
            out    == fOut[1].instr
            word   == concat([k \in 1..Len(out) |->
                                 <<out[k][1].val, out[k][2].num[1]>>])
        IN  /\ fOut[1].type = "instr"
            /\ Len(out) = Len(layout)
            /\ \A k \in 1..Len(layout) :
                 LET w == layout[k][2] - layout[k][3] + 1
                     x == FieldValue(fmt, fLine.instr, layout[k])
                     o == FieldOffset(layout, k)
                 IN  /\ out[k] = Field(Py(x), w)
                     /\ BitsValue(word[1], o + w - 1, o) = Py(x)
            /\ word[2] = 32
            /\ Le(Zero, word[1]) /\ Lt(word[1], Pow2(32))
            /\ ModPow2(word[1], 7) = Py(instr_map(m).op)

\* `6f/jal 5/rd/x5 -2/off20` in a code segment is emitted as
\* `6f/7 05/5 ff/8 01/1 3fe/10 01/1`
C1_Witness ==
    /\ Emitted
    /\ fLine = InstrLine(<<Opd(111, <<T("jal")>>),
                           Opd(5, <<T("rd"), TN("x", 5)>>),
                           Opd(-2, <<TN("off", 20)>>)>>)
    /\ fOut = <<InstrLine(<<Field(Py(111), 7), Field(Py(5), 5),
                            Field(Py(255), 8), Field(Py(1), 1),
                            Field(Py(1022), 10), Field(Py(1), 1)>>)>>

\* C7: an instruction line of a code segment is emitted only if its first
\* part carries a known mnemonic, its opcode is the canonical one, it has
\* the operands of the format, and every operand, concrete or symbolic,
\* carries the role of its position as its first tag
C7_RolesVerified ==
    Emitted =>
        /\ Len(fLine.instr[1]) = 2
        /\ fLine.instr[1][2] \in {T(m) : m \in Mnemonics}
        /\ LET m   == fLine.instr[1][2].name
               fmt == instr_map(m).fmt
           IN  /\ fLine.instr[1][1] = IntHead(Py(instr_map(m).op))
               /\ Len(fLine.instr) = Len(Written(fmt))
               /\ \A k \in 2..Len(fLine.instr) :
                    /\ Len(fLine.instr[k]) >= 2
                    /\ <<fLine.instr[k][2]>> = RoleTag(fmt, Written(fmt)[k])

\* the part of C7 that holds: the checks made on the mnemonic, the opcode,
\* the operand count and the roles of concrete operands
C7_ConcreteRolesVerified ==
    Emitted =>
        /\ Len(fLine.instr[1]) = 2
        /\ fLine.instr[1][2] \in {T(m) : m \in Mnemonics}
        /\ LET m   == fLine.instr[1][2].name
               fmt == instr_map(m).fmt
           IN  /\ fLine.instr[1][1] = IntHead(Py(instr_map(m).op))
               /\ Len(fLine.instr) = Len(Written(fmt))
               /\ \A k \in 2..Len(fLine.instr) :
                    ~fLine.instr[k][1].ref =>
                        /\ Len(fLine.instr[k]) >= 2
                        /\ <<fLine.instr[k][2]>> = RoleTag(fmt, Written(fmt)[k])

\* `37/lui 5/rd x/off20` in a code segment is emitted as
\* `37/7 05/5 x[31:12]/off20`
C7_WrongRoleEmitted ==
    /\ Emitted
    /\ fLine = InstrLine(<<Opd(55, <<T("lui")>>), Opd(5, <<T("rd")>>),
                           RefOpd("x", <<>>, <<TN("off", 20)>>)>>)
    /\ fOut = <<InstrLine(<<Field(Py(55), 7), Field(Py(5), 5),
                            RefOpd("x", <<31, 12>>, <<TN("off", 20)>>)>>)>>


-----------------------------------------------------------------------------
(* SurveySpec: survey.survey reading its input into the queue, one loop    *)
(* iteration per step, then resolving the queue, one entry per step        *)

\* the longest input read
MaxLines == 3

\* headers with a base (16, 0x80000000) and without, labels, an empty line,
\* instructions of 4, 4, 2 and 3 bytes, one of 12 bits and one with a part
\* that has no width
SurveyInputs ==
    {SegmentLine(<<"code", Py(16)>>), SegmentLine(<<"data", Norm(32768, 0)>>),
     SegmentLine(<<"data">>),
     LabelLine("x"), LabelLine("y"), EmptyLine,
     InstrLine(<<Field(Py(55), 7), Field(Py(5), 5), Field(Py(65552), 20)>>),
     InstrLine(<<Field(Py(111), 7), Field(Py(0), 5),
                 RefOpd("x", <<19, 12>>, <<TN("off", 8)>>),
                 RefOpd("x", <<11, 11>>, <<TN("off", 1)>>),
                 RefOpd("x", <<10, 1>>, <<TN("off", 10)>>),
                 RefOpd("x", <<20, 20>>, <<TN("off", 1)>>)>>),
     InstrLine(<<RefOpd("y", <<15, 0>>, <<TN("imm", 16)>>)>>),
     InstrLine(<<Field(Py(55), 7), Field(Py(5), 5),
                 RefOpd("x", <<11, 0>>, <<TN("imm", 12)>>)>>),
     InstrLine(<<Field(Py(55), 7), Field(Py(5), 5)>>),
     InstrLine(<<Field(Py(55), 7), Opd(5, <<T("rd")>>), Field(Py(1), 20)>>)}

SurveyInit == IdleCall /\ IdleFormat /\ IdleSurvey /\ IdlePack /\ IdlePipe /\ IdleElf

\* one iteration of `for line in iter`
SurveyRead ==
    /\ sPc = "pass1" /\ Len(queue) < MaxLines
    /\ \E line \in SurveyInputs :
         \E r \in {survey_read([queue |-> queue, map |-> map, addr |-> addr],
                                line)} :
             /\ queue' = Append(queue, [line |-> line, addr |-> addr])
             /\ IF r.ok
                THEN map' = r.val.map /\ addr' = r.val.addr /\ sPc' = "pass1"
                ELSE map' = map /\ addr' = addr /\ sPc' = "failed"
    /\ UNCHANGED <<sPos, sOut, bitsVars, formatVars, packVars, pipeVars, elfVars>>

\* the input is exhausted: the second loop starts
SurveyEndOfInput ==
    /\ sPc = "pass1"
    /\ sPc' = "pass2" /\ sPos' = 1
    /\ UNCHANGED <<queue, map, addr, sOut,
                   bitsVars, formatVars, packVars, pipeVars, elfVars>>

\* one iteration of `for line in queue`
SurveyResolve ==
    /\ sPc = "pass2" /\ sPos <= Len(queue)
    /\ \E r \in {survey_resolve(queue[sPos], map)} :
           IF r.ok
           THEN sOut' = sOut \o r.val /\ sPos' = sPos + 1 /\ sPc' = "pass2"
           ELSE sOut' = sOut /\ sPos' = sPos /\ sPc' = "failed"
    /\ UNCHANGED <<queue, map, addr, bitsVars, formatVars, packVars, pipeVars, elfVars>>

\* the queue is exhausted: survey returns
SurveyReturn ==
    /\ sPc = "pass2" /\ sPos > Len(queue)
    /\ sPc' = "done"
    /\ UNCHANGED <<queue, map, addr, sPos, sOut,
                   bitsVars, formatVars, packVars, pipeVars, elfVars>>

SurveyNext == SurveyRead \/ SurveyEndOfInput \/ SurveyResolve \/ SurveyReturn

SurveySpec == SurveyInit /\ [][SurveyNext]_vars


-----------------------------------------------------------------------------
(* Addresses, stated apart from survey.py                                  *)

\* every part of the line carries a width: a concrete part its numeric
\* width, a symbolic part the width in its mode tag
HasWidths(line) ==
    \A k \in 1..Len(line.instr) :
        LET part == line.instr[k]
        IN  /\ Len(part) >= 2
            /\ part[2].num # <<>>
            /\ IF part[1].ref THEN part[2].name \in {"imm", "off"}
               ELSE part[2].name = ""

\* the sum of the widths of the parts
RECURSIVE TotalWidth(_)
TotalWidth(parts) ==
    IF parts = <<>> THEN 0 ELSE Head(parts)[2].num[1] + TotalWidth(Tail(parts))

\* the bytes a queued line occupies
BytesOf(line) ==
    IF line.type = "instr" THEN TotalWidth(line.instr) \div 8 ELSE 0

\* the most recent segment header before entry k of the queue, 0 if none
HeaderBefore(k) ==
    LET hs == {h \in 1..(k - 1) : queue[h].line.type = "segment"}
    IN  IF hs = {} THEN 0 ELSE CHOOSE h \in hs : \A g \in hs : g <= h

\* the bytes of the queued lines strictly between entries h and k
RECURSIVE BytesBetween(_, _)
BytesBetween(h, k) ==
    IF k <= h + 1 THEN 0
    ELSE BytesBetween(h, k - 1) + BytesOf(queue[k - 1].line)

\* the current address once entry k had been read
AddrAfter(k) == IF k < Len(queue) THEN queue[k + 1].addr ELSE addr

\* entry k was read without survey failing on it
ReadOk(k) == k < Len(queue) \/ sPc # "failed" \/ sPos > 0

\* C4: the address recorded for an instruction or a label is the base of
\* the most recent segment header plus the bytes of the instructions
\* between the header and it; a label is bound to that address, which is
\* the address of the next instruction after it; labels and empty lines
\* leave the current address alone; an instruction whose width is not a
\* multiple of 8 makes survey fail
C4_AddressIsBasePlusWidths ==
    \A k \in 1..Len(queue) :
        LET e == queue[k]
            h == HeaderBefore(k)
        IN  /\ (h > 0 /\ e.line.type \in {"instr", "label"}) =>
                  e.addr = Add(queue[h].line.segment[2], Py(BytesBetween(h, k)))
            /\ e.line.type = "label" =>
                  /\ e.line.label \in DOMAIN map
                  /\ (\A j \in (k + 1)..Len(queue) :
                          queue[j].line # e.line) => map[e.line.label] = e.addr
                  /\ \A j \in (k + 1)..Len(queue) :
                        (/\ queue[j].line.type = "instr"
                         /\ \A g \in (k + 1)..(j - 1) :
                                queue[g].line.type \in {"label", "empty"})
                        => queue[j].addr = e.addr
            /\ e.line.type \in {"label", "empty"} => AddrAfter(k) = e.addr
            /\ (e.line.type = "instr" /\ ReadOk(k)) =>
                  /\ HasWidths(e.line)
                  /\ TotalWidth(e.line.instr) % 8 = 0
                  /\ AddrAfter(k) = Add(e.addr, Py(BytesOf(e.line)))
            /\ (/\ e.line.type = "instr" /\ HasWidths(e.line)
                /\ TotalWidth(e.line.instr) % 8 # 0) =>
                  k = Len(queue) /\ sPc = "failed"

\* after `== code 0x10`, a 4 byte instruction and a `jal` with symbolic
\* fields the instructions are recorded at 0x10 and 0x14 and the current
\* address is 0x18
C4_Witness ==
    /\ sPc = "pass1" /\ Len(queue) = 3
    /\ queue[1].line = SegmentLine(<<"code", Py(16)>>)
    /\ queue[2].line.type = "instr" /\ queue[2].addr = Py(16)
    /\ queue[3].line.type = "instr" /\ Len(queue[3].line.instr) = 6
    /\ queue[3].line.instr[3] = RefOpd("x", <<19, 12>>, <<TN("off", 8)>>)
    /\ queue[3].addr = Py(20)
    /\ addr = Py(24)

\* C10: reading a segment header without a base sets the current address
\* to 0 and survey goes on; reading one with a base sets it to the base
C10_BaselessHeaderStartsAtZero ==
    \A k \in 1..Len(queue) :
        queue[k].line.type = "segment" =>
            IF Len(queue[k].line.segment) = 2
            THEN AddrAfter(k) = queue[k].line.segment[2]
            ELSE ReadOk(k) /\ AddrAfter(k) = Zero

\* what holds instead: the header without a base is the last line read and
\* survey has failed on it
C10_BaselessHeaderFails ==
    \A k \in 1..Len(queue) :
        queue[k].line.type = "segment" =>
            IF Len(queue[k].line.segment) = 2
            THEN AddrAfter(k) = queue[k].line.segment[2]
            ELSE k = Len(queue) /\ sPc = "failed" /\ sOut = <<>>

\* survey has read `== data` and failed
C10_Witness ==
    /\ queue # <<>>
    /\ queue[Len(queue)].line = SegmentLine(<<"data">>)
    /\ sPc = "failed"


-----------------------------------------------------------------------------
(* PackSpec: pack.pack reading lines from its input, one loop iteration    *)
(* per step                                                                *)

\* the most parts of an instruction line drawn from PackParts
MaxParts == 3

\* fields of 7, 5, 4, 8 and 1 bits, a field whose value does not fit its
\* width (1ff/8), and an unresolved reference
PackParts ==
    {Field(Py(55), 7), Field(Py(5), 5), Field(Py(10), 4),
     Field(Py(255), 8), Field(Py(1), 1), Field(Py(511), 8),
     RefOpd("x", <<11, 0>>, <<TN("imm", 12)>>)}

\* the lines of up to MaxParts of these parts, a formatted `lui`, a
\* resolved `jal`, a line of 40 bits, a part without a width, and lines
\* that are not instructions
PackInputs ==
    {InstrLine(ps) : ps \in UNION {[1..n -> PackParts] : n \in 1..MaxParts}}
    \cup {InstrLine(<<Field(Py(55), 7), Field(Py(5), 5), Field(Py(65552), 20)>>),
          InstrLine(<<Field(Py(111), 7), Field(Py(0), 5), Field(Py(255), 8),
                      Field(Py(1), 1), Field(Py(998), 10), Field(Py(1), 1)>>),
          InstrLine(<<Field(Py(65552), 20), Field(Py(703710), 20)>>),
          InstrLine(<<Field(Py(55), 7), Opd(5, <<T("rd")>>)>>),
          SegmentLine(<<"code", Norm(32768, 0)>>), SegmentLine(<<"data">>),
          LabelLine("x"), EmptyLine}

PackInit == IdleCall /\ IdleFormat /\ IdleSurvey /\ IdlePack /\ IdlePipe /\ IdleElf

\* one iteration of `for line in iter`: read, then yield or raise
PackStep ==
    /\ pPc = "run"
    /\ \E line \in PackInputs :
         \E r \in {pack_line(line)} :
             /\ pLine' = line
             /\ IF r.ok THEN pOut' = <<r.val>> /\ pPc' = "run"
                ELSE pOut' = <<>> /\ pPc' = "failed"
    /\ UNCHANGED <<bitsVars, formatVars, surveyVars, pipeVars, elfVars>>

PackNext == PackStep

PackSpec == PackInit /\ [][PackNext]_vars

\* every part of the line is a concrete bit-field: an integer v with a
\* width w, 0 <= v < 2^w
ConcreteFields(line) ==
    \A k \in 1..Len(line.instr) :
        LET part == line.instr[k]
        IN  /\ ~part[1].ref /\ Len(part) >= 2
            /\ part[2].name = "" /\ part[2].num # <<>>
            /\ Le(Zero, part[1].val) /\ Lt(part[1].val, Pow2(part[2].num[1]))

\* a * 2^k, for a product below 2^46
Times2(a, k) ==
    IF k < 16 THEN Norm(a[1] * 2^k, a[2] * 2^k)
    ELSE Norm((a[1] * Base + a[2]) * 2^(k - 16), 0)

\* the word of the fields laid low to high in line order, the first at
\* bit `at`
RECURSIVE WordOf(_, _)
WordOf(parts, at) ==
    IF parts = <<>> THEN Zero
    ELSE Add(Times2(Head(parts)[1].val, at),
             WordOf(Tail(parts), at + Head(parts)[2].num[1]))

\* the word of byte parts laid low to high
RECURSIVE BytesWord(_, _)
BytesWord(parts, at) ==
    IF parts = <<>> THEN Zero
    ELSE Add(Times2(Head(parts)[1].val, at), BytesWord(Tail(parts), at + 8))

\* C6: an instruction line of concrete bit-fields whose widths sum to a
\* multiple of 8 is packed into (total width / 8) untagged byte parts, the
\* k-th being bits [8k+7:8k] of the word of the fields laid low to high,
\* so that the bytes laid low to high are that word; a line whose widths do
\* not sum to a multiple of 8 makes pack fail; a line that is not an
\* instruction is echoed
C6_BytesLittleEndian ==
    /\ pLine.type # "instr" => pPc = "run" /\ (pOut = <<>> \/ pOut = <<pLine>>)
    /\ (pLine.type = "instr" /\ ConcreteFields(pLine)) =>
          LET total == TotalWidth(pLine.instr)
              word  == WordOf(pLine.instr, 0)
          IN  IF total % 8 # 0 THEN pPc = "failed" /\ pOut = <<>>
              ELSE /\ pPc = "run" /\ Len(pOut) = 1
                   /\ pOut[1].type = "instr"
                   /\ Len(pOut[1].instr) = total \div 8
                   /\ \A k \in 0..(total \div 8 - 1) :
                        pOut[1].instr[k + 1]
                            = <<IntHead(BitsValue(word, 8 * k + 7, 8 * k))>>
                   /\ BytesWord(pOut[1].instr, 0) = word

\* `37/7 05/5 10010/20` is packed into `b7 02 01 10`
C6_Witness ==
    /\ pPc = "run"
    /\ pLine = InstrLine(<<Field(Py(55), 7), Field(Py(5), 5),
                           Field(Py(65552), 20)>>)
    /\ pOut = <<InstrLine(<<Opd(183, <<>>), Opd(2, <<>>), Opd(1, <<>>),
                            Opd(16, <<>>)>>)>>


-----------------------------------------------------------------------------
(* PipeSpec: a source text run through format, survey and pack in turn,    *)
(* each stage reading what the stage before it yielded                     *)

\* the most instructions between the code header and the last instruction
MaxPad == 1

\* bases of the segment holding the label x (0, 0x1000, 0x80000000) and of
\* the code segment (0x34, 0x80000034)
LabelBases == {Py(0), Py(4096), Norm(32768, 0)}
CodeBases  == {Py(52), Norm(32768, 52)}

\* immediates of the last instruction: a concrete one, bare labels with
\* the role of the format, the other mode, another width, an undefined
\* label, and labels with an explicit slice
PipeImms(fmt) ==
    LET role  == ImmRole(fmt)
        other == IF role.name = "imm" THEN "off" ELSE "imm"
        r     == ImmRange(fmt)
    IN  {Opd(-2, <<role>>),
         RefOpd("x", <<>>, <<role>>),
         RefOpd("x", <<>>, <<TN(other, role.num[1])>>),
         RefOpd("x", <<>>, <<TN(role.name, 32 - role.num[1])>>),
         RefOpd("z", <<>>, <<role>>),
         RefOpd("x", r, <<role>>),
         RefOpd("x", <<r[1] - r[2], 0>>, <<role>>),
         RefOpd("x", <<11, 0>>, <<TN("imm", 12)>>),
         RefOpd("x", <<31, 12>>, <<TN("imm", 20)>>)}

\* the last instruction: one mnemonic of each format
PipeInstrs ==
    UNION {ULines(PipeImms("U")), JLines(PipeImms("J")), ILines(PipeImms("I")),
           SLines(PipeImms("S")), BLines(PipeImms("B"))}

\* `37/lui 5/rd 0x10010/imm20`
PadInstr ==
    InstrLine(<<Opd(55, <<T("lui")>>), Opd(5, <<T("rd")>>),
                Opd(65552, <<TN("imm", 20)>>)>>)

\* == data A / x: / == code C / pad instructions / the last instruction
Programs ==
    {<<SegmentLine(<<"data", a>>), LabelLine("x"), SegmentLine(<<"code", c>>)>>
        \o [k \in 1..n |-> PadInstr] \o <<ins>> :
        a \in LabelBases, c \in CodeBases, n \in 0..MaxPad, ins \in PipeInstrs}

PipeInit ==
    /\ IdleCall /\ IdleFormat /\ IdleSurvey /\ IdlePack /\ IdleElf
    /\ src \in Programs /\ stage = 0
    /\ formatted = [ok |-> TRUE, lines |-> <<>>]
    /\ surveyed  = [ok |-> TRUE, lines |-> <<>>]
    /\ packed    = [ok |-> TRUE, lines |-> <<>>]

RunFormat ==
    /\ stage = 0
    /\ formatted' = format(src)
    /\ stage' = 1
    /\ UNCHANGED <<src, surveyed, packed,
                   bitsVars, formatVars, surveyVars, packVars, elfVars>>

RunSurvey ==
    /\ stage = 1
    /\ surveyed' = survey(formatted.lines)
    /\ stage' = 2
    /\ UNCHANGED <<src, formatted, packed,
                   bitsVars, formatVars, surveyVars, packVars, elfVars>>

RunPack ==
    /\ stage = 2
    /\ packed' = pack(surveyed.lines)
    /\ stage' = 3
    /\ UNCHANGED <<src, formatted, surveyed,
                   bitsVars, formatVars, surveyVars, packVars, elfVars>>

PipeNext == RunFormat \/ RunSurvey \/ RunPack

PipeSpec == PipeInit /\ [][PipeNext]_vars


\* the last instruction of the source, its format and its immediate
LastInstr == src[Len(src)].instr
LastFmt   == instr_map(LastInstr[1][2].name).fmt
LastImm   == LastInstr[Len(LastInstr)]

\* where the source puts the label x and the last instruction
LabelAddr == src[1].segment[2]
InstrAddr == Add(src[3].segment[2], Py(4 * (Len(src) - 4)))

\* the 32 bit value a reference to x stands for in the last instruction
Resolved(mode) ==
    IF mode = "imm" THEN LabelAddr
    ELSE ModPow2(Sub(LabelAddr, InstrAddr), 32)

\* all three stages have run and none has failed
AllPassed == stage = 3 /\ formatted.ok /\ surveyed.ok /\ packed.ok

\* C2: when the immediate of a U, I, S, J or B instruction is a bare label
\* and format and survey both succeed, survey yields the concrete fields of
\* the format, with its widths and order, each immediate field holding the
\* bits of the resolved value (the label address for mode imm, the label
\* address minus the instruction address modulo 2^32 for mode off) at its
\* RV32I positions
C2_BareLabelResolved ==
    (/\ stage >= 2 /\ formatted.ok /\ surveyed.ok
     /\ LastImm[1].ref /\ LastImm[1].slice = <<>>) =>
        LET layout == RV32I(LastFmt)
            value  == Resolved(LastImm[2].name)
            out    == surveyed.lines[Len(surveyed.lines)]
        IN  /\ Len(surveyed.lines) = Len(src) - 1
            /\ out.type = "instr"
            /\ Len(out.instr) = Len(layout)
            /\ \A k \in 1..Len(layout) :
                 LET f == layout[k]
                 IN  out.instr[k] =
                       Field(IF f[1] = "imm" THEN BitsValue(value, f[2], f[3])
                             ELSE Py(FieldValue(LastFmt, LastInstr, f)),
                             f[2] - f[3] + 1)

\* `6f/jal 5/rd/x5 x/off20` at 0x80000034 with x at 0x80000000 becomes
\* `6f/7 05/5 ff/8 01/1 3e6/10 01/1`
C2_Witness ==
    /\ stage >= 2 /\ formatted.ok /\ surveyed.ok
    /\ src = <<SegmentLine(<<"data", Norm(32768, 0)>>), LabelLine("x"),
               SegmentLine(<<"code", Norm(32768, 52)>>),
               InstrLine(<<Opd(111, <<T("jal")>>),
                           Opd(5, <<T("rd"), TN("x", 5)>>),
                           RefOpd("x", <<>>, <<TN("off", 20)>>)>>)>>
    /\ surveyed.lines[3] =
         InstrLine(<<Field(Py(111), 7), Field(Py(5), 5), Field(Py(255), 8),
                     Field(Py(1), 1), Field(Py(998), 10), Field(Py(1), 1)>>)

\* C3: for every instruction line of a code segment that passes format,
\* survey and pack the fields format emitted total 32 bits and pack emits
\* four byte parts
C3_FourBytes ==
    AllPassed =>
        \A k \in 4..Len(src) :
            /\ HasWidths(formatted.lines[k])
            /\ TotalWidth(formatted.lines[k].instr) = 32
            /\ Len(packed.lines[k - 1].instr) = 4

\* `37/lui 5/rd x[11:0]/imm12` passes the three stages: format emits 24
\* bits for it and pack three byte parts
C3_ThreeBytes ==
    /\ AllPassed
    /\ LastInstr = <<Opd(55, <<T("lui")>>), Opd(5, <<T("rd")>>),
                     RefOpd("x", <<11, 0>>, <<TN("imm", 12)>>)>>
    /\ TotalWidth(formatted.lines[Len(src)].instr) = 24
    /\ Len(packed.lines[Len(src) - 1].instr) = 3


-----------------------------------------------------------------------------
(* Format and the segment a line stands in                                 *)

\* the line is made of width-tagged bit-fields only
BitFieldLine(line) == line.type = "instr" /\ HasWidths(line)

\* C11 as stated: format rewrites every instruction line into width-tagged
\* bit-fields or rejects it, whatever header came before, and echoes
\* exactly the lines that are not instructions
C11_EveryInstructionRewritten ==
    /\ fPc = "failed" => fLine.type = "instr"
    /\ (fPc = "run" /\ fOut # <<>>) =>
          IF fLine.type = "instr"
          THEN BitFieldLine(fOut[1]) /\ fOut[1] # fLine
          ELSE fOut = <<fLine>>

\* C11: format rewrites an instruction line into width-tagged bit-fields,
\* or rejects it, exactly when the most recent segment header names `code`;
\* an instruction line of another segment or before any header is echoed
\* like the lines that are not instructions
C11_RewrittenInCodeOnly ==
    /\ fPc = "failed" => fLine.type = "instr" /\ fSegment = <<"code">>
    /\ (fPc = "run" /\ fOut # <<>>) =>
          IF fLine.type = "instr" /\ fSegment = <<"code">>
          THEN BitFieldLine(fOut[1]) /\ fOut[1] # fLine
          ELSE fOut = <<fLine>>

\* `37/lui 5/rd 1/imm20` after `== data 0x1000` is echoed
C11_Witness ==
    /\ fPc = "run" /\ fSegment = <<"data">>
    /\ fLine = InstrLine(<<Opd(55, <<T("lui")>>), Opd(5, <<T("rd")>>),
                           Opd(1, <<TN("imm", 20)>>)>>)
    /\ fOut = <<fLine>>


-----------------------------------------------------------------------------
(* subv.py on text: a line is a string, read one character at a time       *)

\* s[k] for k in 1..Len(s), s[a..b], s[a..]
Char(s, k)     == SubSeq(s, k, k)
Chars(s, a, b) == IF a > b THEN "" ELSE SubSeq(s, a, b)
From(s, a)     == Chars(s, a, Len(s))

\* the k-th smallest element of a set of numbers
Nth(S, k) == CHOOSE x \in S : Cardinality({y \in S : y < x}) = k - 1

\* str.strip(): without the blanks at either end
strip(s) ==
    LET ks == {k \in 1..Len(s) : Char(s, k) # " "}
    IN  IF ks = {} THEN ""
        ELSE Chars(s, Nth(ks, 1), Nth(ks, Cardinality(ks)))

\* white = [ \t\.\n]+
white(c) == c \in {" ", "."}

\* white.split(s): the pieces between the runs of white characters, an
\* empty piece standing before a leading run and after a trailing one
white_split(s) ==
    LET n      == Len(s)
        starts == {k \in 1..n : ~white(Char(s, k))
                                /\ (k = 1 \/ white(Char(s, k - 1)))}
        stop(k) == CHOOSE j \in k..n :
                      /\ \A m \in k..j : ~white(Char(s, m))
                      /\ (j = n \/ white(Char(s, j + 1)))
        words  == [k \in 1..Cardinality(starts) |->
                      Chars(s, Nth(starts, k), stop(Nth(starts, k)))]
    IN  IF n = 0 THEN <<"">>
        ELSE (IF white(Char(s, 1)) THEN <<"">> ELSE <<>>)
             \o words
             \o (IF white(Char(s, n)) THEN <<"">> ELSE <<>>)

\* s.split(sep) for a separator of one character
split_at(s, sep) ==
    LET n    == Len(s)
        cuts == {k \in 1..n : Char(s, k) = sep}
        c    == Cardinality(cuts)
        cut(k) == IF k = 0 THEN 0 ELSE IF k = c + 1 THEN n + 1 ELSE Nth(cuts, k)
    IN  [k \in 1..(c + 1) |-> Chars(s, cut(k - 1) + 1, cut(k) - 1)]

\* the value of a hexadecimal digit, -1 for another character
HexDigit(c) ==
    CASE c = "0" -> 0 [] c = "1" -> 1 [] c = "2" -> 2 [] c = "3" -> 3
      [] c = "4" -> 4 [] c = "5" -> 5 [] c = "6" -> 6 [] c = "7" -> 7
      [] c = "8" -> 8 [] c = "9" -> 9 [] c = "a" -> 10 [] c = "b" -> 11
      [] c = "c" -> 12 [] c = "d" -> 13 [] c = "e" -> 14 [] c = "f" -> 15
      [] OTHER -> -1

\* the digits of s after the sign and the 0x prefix removed by hex
hex_digits(s) ==
    LET u1 == IF Len(s) >= 1 /\ Char(s, 1) = "-" THEN From(s, 2) ELSE s
    IN  IF Len(u1) >= 2 /\ Chars(u1, 1, 2) = "0x" THEN From(u1, 3) ELSE u1

\* hex = ^\-?(0x)?[0-9a-f]+$ matches s
hex_match(s) ==
    /\ Len(hex_digits(s)) >= 1
    /\ \A k \in 1..Len(hex_digits(s)) : HexDigit(Char(hex_digits(s), k)) >= 0

\* the number written by a string of hexadecimal digits
RECURSIVE hex_value(_)
hex_value(d) ==
    IF d = "" THEN 0
    ELSE 16 * hex_value(Chars(d, 1, Len(d) - 1)) + HexDigit(Char(d, Len(d)))

\* int(s, 16) of a string hex matches
int16(s) ==
    IF Char(s, 1) = "-" THEN -hex_value(hex_digits(s)) ELSE hex_value(hex_digits(s))

\* part[0] of a parsed part: an int or a str
NumHead(n) == [num |-> <<n>>, str |-> ""]
StrHead(s) == [num |-> <<>>, str |-> s]

\* the tuple parse_part returns: <<head, tag, ...>>
parse_part(part) ==
    LET p == split_at(part, "/")
    IN  <<IF hex_match(p[1]) THEN NumHead(int16(p[1])) ELSE StrHead(p[1])>>
        \o Tail(p)

parse_instr(line) ==
    LET parts == SelectSeq(white_split(line), LAMBDA w : w # "")
    IN  [k \in 1..Len(parts) |-> parse_part(parts[k])]

parse_segment(line) ==
    LET parts == white_split(line)
    IN  IF Len(parts) = 3
        THEN IF hex_match(parts[3]) THEN Ok(<<parts[2], int16(parts[3])>>)
             ELSE Err("ValueError")
        ELSE IF Len(parts) = 2 THEN Ok(<<parts[2]>>)
        ELSE Err("ValueError")

parse_label(line) == Chars(line, 1, Len(line) - 1)

classify(line) ==
    IF line = "" THEN "empty"
    ELSE IF Len(line) >= 2 /\ Chars(line, 1, 2) = "==" THEN "segment"
    ELSE IF Char(line, Len(line)) = ":" THEN "label"
    ELSE "instr"


\* Python's None and a value that is not None
None    == <<>>
Some(x) == <<x>>

\* the dict parse returns; the key named by type holds the parsed value
TextLine(type, raw, clean, comment, parsed) ==
    [type    |-> type,
     raw     |-> raw,
     line    |-> clean,
     comment |-> comment,
     instr   |-> IF type = "instr" THEN parsed ELSE <<>>,
     segment |-> IF type = "segment" THEN parsed ELSE <<>>,
     label   |-> IF type = "label" THEN parsed ELSE ""]

\* parse once raw is split at its first '#': the text before it is
\* classified as it stands
parse_clean(raw, clean, comment) ==
    LET type == classify(clean)
    IN  CASE type = "segment" ->
               IF parse_segment(clean).ok
               THEN Ok(TextLine(type, raw, clean, comment, parse_segment(clean).val))
               ELSE parse_segment(clean)
          [] type = "label" ->
               Ok(TextLine(type, raw, clean, comment, parse_label(clean)))
          [] type = "instr" ->
               Ok(TextLine(type, raw, clean, comment, parse_instr(clean)))
          [] OTHER ->
               Ok(TextLine(type, raw, clean, comment, None))

parse(line) ==
    LET raw    == strip(line)
        hashes == {k \in 1..Len(raw) : Char(raw, k) = "#"}
    IN  IF hashes = {}
        THEN parse_clean(raw, raw, None)
        ELSE parse_clean(raw, Chars(raw, 1, Nth(hashes, 1) - 1),
                         Some(From(raw, Nth(hashes, 1) + 1)))

\* the digits of '{:x}'.format(n) for n >= 0
HexChar(d) == Char("0123456789abcdef", d + 1)

RECURSIVE hex_of(_)
hex_of(n) == IF n < 16 THEN HexChar(n) ELSE hex_of(n \div 16) \o HexChar(n % 16)

\* '{:02x}'.format(n): the sign counts towards the width of 2
format_02x(n) ==
    LET f == IF n < 0 THEN "-" \o hex_of(-n) ELSE hex_of(n)
    IN  IF Len(f) < 2 THEN "0" \o f ELSE f

\* sep.join(words)
RECURSIVE join(_, _)
join(sep, words) ==
    IF words = <<>> THEN ""
    ELSE IF Len(words) = 1 THEN words[1]
    ELSE words[1] \o sep \o join(sep, Tail(words))

format_part(part) ==
    join("/", <<IF part[1].num # <<>> THEN format_02x(part[1].num[1])
                ELSE part[1].str>> \o Tail(part))

\* subv.format: the text of an instruction line
subv_format(line) ==
    IF line.type = "instr"
    THEN LET text == join(" ", [k \in 1..Len(line.instr) |-> format_part(line.instr[k])])
         IN  IF line.comment # None /\ line.comment[1] # ""
             THEN Ok(text \o " # " \o line.comment[1])
             ELSE Ok(text)
    ELSE Err("NotImplementedError")


-----------------------------------------------------------------------------
(* subv.parse and subv.format called in turn on the text of one line       *)

\* how many times a parsed line is printed and parsed again
MaxRounds == 2

Leads == {"", " "}

Bodies ==
    {"", "37/lui 5/rd", "-12/x 0x10010/imm20", "6f/jal 0/rd main[20:1]/off20//far",
     "ff/op  1/rd.x/y", "/t 0", ".",
     "main:", "$a:b:", ":", "x: 1",
     "==", "== code", "== code 0x80", "== code zz", "== a b c", "==code 1"}

Comments == {"", " ", "#", " #", "#c", " #c", " # c", "# c #d", "  # c "}

Texts == {l \o b \o c : l \in Leads, b \in Bodies, c \in Comments}

TextInit == IdleCall /\ IdleFormat /\ IdleSurvey /\ IdlePack /\ IdlePipe /\ IdleElf

\* parse(text) for a line of source text
ParseText ==
    /\ call.fn = "none"
    /\ \E text \in Texts :
         /\ call' = [fn |-> "parse", arg |-> text, line |-> None, round |-> 0]
         /\ ret' = parse(text)
    /\ UNCHANGED <<formatVars, surveyVars, packVars, pipeVars, elfVars>>

\* format(line) for the line parse returned
PrintLine ==
    /\ call.fn = "parse" /\ ret.ok /\ call.round < MaxRounds
    /\ call' = [fn |-> "format", arg |-> ret.val, line |-> Some(ret.val),
                round |-> call.round]
    /\ ret' = subv_format(ret.val)
    /\ UNCHANGED <<formatVars, surveyVars, packVars, pipeVars, elfVars>>

\* parse(text) for the text format returned
ParsePrinted ==
    /\ call.fn = "format" /\ ret.ok
    /\ call' = [fn |-> "parse", arg |-> ret.val, line |-> call.line,
                round |-> call.round + 1]
    /\ ret' = parse(ret.val)
    /\ UNCHANGED <<formatVars, surveyVars, packVars, pipeVars, elfVars>>

TextNext == ParseText \/ PrintLine \/ ParsePrinted

TextSpec == TextInit /\ [][TextNext]_vars

\* ret is what parse made of the text format printed for an instruction
\* line: a line of at least one part whose text, comment and blanks apart,
\* is neither a label nor a segment header
Reparsed ==
    /\ call.fn = "parse" /\ call.line # None
    /\ call.line[1].type = "instr" /\ call.line[1].instr # <<>>
    /\ classify(strip(call.line[1].line)) = "instr"

\* C12: an instruction line printed by format and parsed again is an equal
\* line: an instruction line with the same parts and the same comment.
C12_PrintParseRoundTrip ==
    Reparsed =>
        /\ ret.ok
        /\ ret.val.type = "instr"
        /\ ret.val.instr = call.line[1].instr
        /\ ret.val.comment = call.line[1].comment

\* The parts of an instruction line do come back, and so does the absence
\* of a comment.
C12_PartsRoundTrip ==
    Reparsed =>
        /\ ret.ok
        /\ ret.val.type = "instr"
        /\ ret.val.instr = call.line[1].instr
        /\ call.line[1].comment = None => ret.val.comment = None

\* `37/lui 5/rd #c` printed and parsed again has the comment ` c`
C12_CommentChanged ==
    /\ Reparsed
    /\ call.round = 1
    /\ call.line[1].instr = <<<<NumHead(55), "lui">>, <<NumHead(5), "rd">>>>
    /\ call.line[1].comment = Some("c")
    /\ call.arg = "37/lui 05/rd # c"
    /\ ret.ok /\ ret.val.comment = Some(" c")

\* the text of a line before its first '#', without the blanks around it
Uncommented(text) ==
    LET hashes == {k \in 1..Len(text) : Char(text, k) = "#"}
    IN  IF hashes = {} THEN strip(text)
        ELSE strip(Chars(text, 1, Nth(hashes, 1) - 1))

\* C13: a line of text is classified and parsed as the text left once its
\* comment is removed and the blanks around the rest are trimmed: empty,
\* segment if that starts with ==, label if it ends with a colon, else
\* instruction; a label or segment header with a comment after it is parsed
\* like the header alone.
C13_ClassifiedWithoutComment ==
    (call.fn = "parse" /\ call.line = None) =>
        \E r \in {parse(Uncommented(call.arg))} :
            /\ ret.ok = r.ok
            /\ ret.ok =>
                 /\ ret.val.type = classify(Uncommented(call.arg))
                 /\ ret.val.type = r.val.type
                 /\ ret.val.instr = r.val.instr
                 /\ ret.val.segment = r.val.segment
                 /\ ret.val.label = r.val.label

\* `main: # c` is parsed as an instruction line of one part
C13_LabelWithCommentIsInstr ==
    /\ call.fn = "parse" /\ call.line = None
    /\ call.arg = "main: # c"
    /\ ret.ok /\ ret.val.type = "instr"
    /\ ret.val.instr = <<<<StrHead("main:")>>>>

\* `== code 0x80 # c` is not parsed at all
C13_SegmentWithCommentFails ==
    /\ call.fn = "parse" /\ call.line = None
    /\ call.arg = "== code 0x80 # c"
    /\ ~ret.ok /\ ret.err = "ValueError"


-----------------------------------------------------------------------------
(* elf.py                                                                   *)

\* num.to_bytes(size, byteorder='little') does not raise OverflowError
\* (every number of the model is below 2^31)
fits(num, size) == num >= 0 /\ (size >= 4 \/ num < 256^size)

\* one call of w or wi: the bytes written, as written at position `at`
Chunk(what, at, size, nums) == [what |-> what, at |-> at, size |-> size, nums |-> nums]

RECURSIVE sizes(_)
sizes(fields) == IF fields = <<>> THEN 0 ELSE fields[1][2] + sizes(Tail(fields))

\* a run of c += wi(num, size) from cursor c: the cursor and the chunk
\* written, or the OverflowError of the first number that does not fit
write_fields(what, c, fields) ==
    IF \A k \in 1..Len(fields) : fits(fields[k][1], fields[k][2])
    THEN Ok([c |-> c + sizes(fields), chunk |-> Chunk(what, c, sizes(fields), fields)])
    ELSE Err("OverflowError")

padto(offset, c) ==
    IF offset - c < 0 THEN Err("ValueError")
    ELSE Ok([c |-> offset, chunk |-> Chunk("padding", c, offset - c, <<>>)])

\* the dict main makes of a segment line; 'offset' is set by
\* write_program_header
Segment(name, a, content, offset) ==
    [name |-> name, addr |-> a, content |-> content, offset |-> offset]

\* w(b"\x7fELF") writes 4 bytes
Magic == <<2135247942, 4>>

write_elf_header(segs) ==
    LET codes == {k \in 1..Len(segs) : segs[k].name = "code"}
    IN  IF codes = {} THEN Err("StopIteration")
        ELSE write_fields("elf header", 0,
                 <<Magic, <<65793, 4>>, <<0, 8>>, <<2, 2>>, <<243, 2>>, <<1, 4>>,
                   <<segs[Nth(codes, 1)].addr, 4>>, <<52, 4>>, <<0, 4>>, <<4, 4>>,
                   <<52, 2>>, <<32, 2>>, <<Len(segs), 2>>, <<40, 2>>, <<0, 2>>,
                   <<0, 2>>>>)

align == 4096

\* write_program_header once `offset` is computed: the segment with its
\* offset set, and the cursor and chunk or the error
program_header(segment, c, offset) ==
    [segment |-> Segment(segment.name, segment.addr, segment.content, Some(offset)),
     r       |-> IF offset % align # segment.addr % align THEN Err("ValueError")
                 ELSE write_fields("program header", c,
                          <<<<1, 4>>, <<offset, 4>>, <<segment.addr, 4>>,
                            <<segment.addr, 4>>, <<Len(segment.content), 4>>,
                            <<Len(segment.content), 4>>,
                            <<IF segment.name = "code" THEN 5 ELSE 6, 4>>,
                            <<align, 4>>>>)]

\* a variant that takes `start` itself when it is aligned
write_program_header_roundup(segment, c, start) ==
    program_header(segment, c, ((start + align - 1) \div align) * align)

write_program_header(segment, c, start) ==
    program_header(segment, c, (1 + start \div align) * align)

\* part[0] of a content part can be written by wi(part[0], 1)
is_byte(part) == part[1].num # <<>> /\ fits(part[1].num[1], 1)

\* for part in seg['content']: c += wi(part[0], 1), after padto
write_content(seg, c) ==
    LET bad   == {k \in 1..Len(seg.content) : ~is_byte(seg.content[k])}
        n     == IF bad = {} THEN Len(seg.content) ELSE Nth(bad, 1) - 1
        chunk == Chunk("content", c, n, [k \in 1..n |-> seg.content[k][1].num[1]])
    IN  [c |-> c + n, chunk |-> chunk,
         err |-> IF bad = {} THEN ""
                 ELSE IF seg.content[n + 1][1].num = <<>> THEN "AttributeError"
                 ELSE "OverflowError"]


\* how many lines main reads from stdin
MaxInput == 4

\* what parse makes of a line of n parts `00`
Zeros(n) == Ok(TextLine("instr", "", "", None, [k \in 1..n |-> <<NumHead(0)>>]))

\* the lines of a packed program, and lines that are none
ElfInputs ==
    {parse(text) : text \in {"== code 0x3000", "== data 0x11000", "== data 0x1234",
                             "== bss", "13 05", "00", "1ff", "x/imm8", "main:", ""}}
    \cup {Zeros(align - 1)}

ElfInit == IdleCall /\ IdleFormat /\ IdleSurvey /\ IdlePack /\ IdlePipe /\ IdleElf

\* an exception ends main
ElfFail(err) ==
    /\ ePc' = err
    /\ UNCHANGED <<segments, cursor, segment_start, file, ePos>>

\* one iteration of `for line in sys.stdin`
ElfRead ==
    /\ ePc = "read" /\ ePos < MaxInput
    /\ \E line \in ElfInputs :
         IF ~line.ok THEN ElfFail(line.err)
         ELSE IF line.val.type = "segment"
         THEN IF Len(line.val.segment) # 2 THEN ElfFail("ValueError")
              ELSE /\ segments' = Append(segments,
                           Segment(line.val.segment[1], line.val.segment[2], <<>>, None))
                   /\ ePos' = ePos + 1
                   /\ UNCHANGED <<cursor, segment_start, file, ePc>>
         ELSE IF line.val.type = "instr"
         THEN IF segments = <<>> THEN ElfFail("ValueError")
              ELSE /\ segments' =
                        [segments EXCEPT ![Len(segments)].content = @ \o line.val.instr]
                   /\ ePos' = ePos + 1
                   /\ UNCHANGED <<cursor, segment_start, file, ePc>>
         ELSE ElfFail("ValueError")
    /\ UNCHANGED <<bitsVars, formatVars, surveyVars, packVars, pipeVars>>

\* stdin ends: write_elf_header(segments), segment_start = 0x1000
ElfHeader ==
    /\ ePc = "read"
    /\ \E r \in {write_elf_header(segments)} :
         IF r.ok
         THEN /\ cursor' = r.val.c
              /\ file' = Append(file, r.val.chunk)
              /\ segment_start' = align
              /\ ePos' = 1
              /\ ePc' = "headers"
              /\ UNCHANGED segments
         ELSE ElfFail(r.err)
    /\ UNCHANGED <<bitsVars, formatVars, surveyVars, packVars, pipeVars>>

\* one iteration of the first `for seg in segments`
ElfProgramHeader ==
    /\ ePc = "headers"
    /\ \E h \in {write_program_header(segments[ePos], cursor, segment_start)} :
         /\ segments' = [segments EXCEPT ![ePos] = h.segment]
         /\ IF h.r.ok
            THEN /\ cursor' = h.r.val.c
                 /\ file' = Append(file, h.r.val.chunk)
                 /\ segment_start' = h.segment.offset[1] + Len(h.segment.content)
                 /\ IF ePos < Len(segments)
                    THEN ePos' = ePos + 1 /\ ePc' = "headers"
                    ELSE ePos' = 1 /\ ePc' = "contents"
            ELSE /\ ePc' = h.r.err
                 /\ UNCHANGED <<cursor, segment_start, file, ePos>>
    /\ UNCHANGED <<bitsVars, formatVars, surveyVars, packVars, pipeVars>>

\* one iteration of the second `for seg in segments`
ElfContent ==
    /\ ePc = "contents"
    /\ \E p \in {padto(segments[ePos].offset[1], cursor)} :
         IF p.ok
         THEN \E t \in {write_content(segments[ePos], p.val.c)} :
                /\ cursor' = t.c
                /\ file' = file \o <<p.val.chunk, t.chunk>>
                /\ IF t.err # "" THEN ePc' = t.err /\ ePos' = ePos
                   ELSE IF ePos < Len(segments)
                   THEN ePos' = ePos + 1 /\ ePc' = "contents"
                   ELSE ePos' = ePos /\ ePc' = "done"
                /\ UNCHANGED <<segments, segment_start>>
         ELSE ElfFail(p.err)
    /\ UNCHANGED <<bitsVars, formatVars, surveyVars, packVars, pipeVars>>

ElfNext == ElfRead \/ ElfHeader \/ ElfProgramHeader \/ ElfContent

ElfSpec == ElfInit /\ [][ElfNext]_vars

\* main has ended with an exception
ElfFailed == ePc \notin {"read", "headers", "contents", "done"}

\* the segments whose program header has been reached
Placed == {k \in 1..Len(segments) : segments[k].offset # None}

p_offset(k) == segments[k].offset[1]
EndOf(k)    == p_offset(k) + Len(segments[k].content)

\* the least multiple of 0x1000 above x
AlignedAfter(x) ==
    CHOOSE a \in {m * 4096 : m \in 0..(x \div 4096 + 1)} :
        a > x /\ \A b \in {m * 4096 : m \in 0..(x \div 4096 + 1)} : b > x => a <= b

\* the bytes of the ELF header and of n program headers
HeaderBytes(n) == 52 + 32 * n

\* the contents of every segment are parts holding one byte each
ByteContents ==
    \A k \in 1..Len(segments) : \A j \in 1..Len(segments[k].content) :
        /\ segments[k].content[j][1].num # <<>>
        /\ segments[k].content[j][1].num[1] \in 0..255

\* what follows from the offsets: they increase, the byte ranges are apart,
\* and the cursor is not past the offset of the segment about to be written
OffsetsApart ==
    /\ \A j, k \in Placed : j < k => p_offset(j) < p_offset(k) /\ EndOf(j) <= p_offset(k)
    /\ ePc = "contents" => cursor <= p_offset(ePos)

\* the loop over stdin has ended without an exception: the ELF header is
\* written, or write_elf_header has raised
SegmentsRead == file # <<>> \/ ePc = "StopIteration"

Misaligned == \E k \in Placed : segments[k].addr % 4096 # p_offset(k) % 4096

C14_MisalignedFails ==
    /\ ePc = "ValueError" /\ Placed = {1, 2}
    /\ segments[2].addr = 4660 /\ p_offset(2) = 3 * 4096


-----------------------------------------------------------------------------
(* slice_bit_or_ref against survey's resolution                            *)

\* slice_bit_or_ref has been applied to a reference label[H:L] tagged with
\* a mode and the width H-L+1, for bits hi:lo with 0 <= lo <= hi
SlicedRef ==
    /\ call.fn = "slice_bit_or_ref" /\ ret # Pending
    /\ call.val[1].ref /\ call.val[1].slice # <<>>
    /\ call.val[2].name \in {"imm", "off"}
    /\ call.val[2].num = <<call.val[1].slice[1] - call.val[1].slice[2] + 1>>
    /\ 0 <= call.lo /\ call.lo <= call.hi

\* slice_bit_or_ref has been applied to an integer v with a width w,
\* 0 <= v < 2^w
SlicedField ==
    /\ call.fn = "slice_bit_or_ref" /\ ret # Pending
    /\ ~call.val[1].ref

\* C15: slicing commutes with resolution. Bits hi:lo of the reference
\* label[H:L] are the reference label[L+hi:L+lo] with the mode and the width
\* hi-lo+1 when L+hi <= H, and an error otherwise; whatever the address of
\* the label and of the instruction, survey resolves the sliced reference
\* to bits hi:lo (by bits.slice) of the field it resolves label[H:L] to,
\* and for H < 32 to nothing when it resolves label[H:L] to nothing. Of an
\* integer field, slice_bit_or_ref is bits.slice.
C15_SliceCommutesWithResolution ==
    /\ SlicedRef =>
         /\ IF call.val[1].slice[2] + call.hi <= call.val[1].slice[1]
            THEN ret = Ok(<<RefHead(call.val[1].label,
                                    <<call.val[1].slice[2] + call.hi,
                                      call.val[1].slice[2] + call.lo>>),
                            TN(call.val[2].name, call.hi - call.lo + 1)>>
                          \o SubSeq(call.val, 3, Len(call.val)))
            ELSE ~ret.ok
         /\ ret.ok =>
              \A a \in Addrs, rel \in Addrs :
                  \E whole \in {observe(call.val, rel, [l \in {"x"} |-> a])},
                     part \in {observe(ret.val, rel, [l \in {"x"} |-> a])} :
                      /\ call.val[1].slice[1] < 32 => part.ok = whole.ok
                      /\ whole.ok =>
                           \E s \in {slice(<<whole.val[1].val, whole.val[2].num[1]>>,
                                           call.hi, call.lo)} :
                               /\ s.ok
                               /\ part.val = Field(s.val[1], s.val[2])
                               /\ part.val[2] = W(call.hi - call.lo + 1)
    /\ SlicedField =>
         \E s \in {slice(<<call.val[1].val, call.val[2].num[1]>>, call.hi, call.lo)} :
             IF s.ok THEN ret = Ok(Field(s.val[1], s.val[2])) ELSE ret = s

\* bits 11:0 of x[31:12]/off20 are x[23:12]/off12, which resolves to bits
\* 23:12 of the offset 0x80000034 - 0x100
C15_Witness ==
    /\ SlicedRef
    /\ call.val = <<RefHead("x", <<31, 12>>), TN("off", 20)>>
    /\ call.hi = 11 /\ call.lo = 0
    /\ ret = Ok(<<RefHead("x", <<23, 12>>), TN("off", 12)>>)
    /\ observe(ret.val, Norm(0, 256), [l \in {"x"} |-> Norm(32768, 52)]).ok
    /\ observe(ret.val, Norm(0, 256), [l \in {"x"} |-> Norm(32768, 52)]).val[2] = W(12)


-----------------------------------------------------------------------------
(* survey: the symbol table and the order of the output                    *)

\* the lines of the queue that define label l, and the labels defined
DefsOf(l) ==
    {k \in 1..Len(queue) : queue[k].line.type = "label" /\ queue[k].line.label = l}
Defined == {queue[k].line.label :
               k \in {j \in 1..Len(queue) : queue[j].line.type = "label"}}

\* the address of each label at its last definition
LastDef ==
    [l \in Defined |->
        queue[CHOOSE k \in DefsOf(l) : \A j \in DefsOf(l) : j <= k].addr]

\* the labels the references of queue line k name
RefsOf(k) ==
    {queue[k].line.instr[j][1].label :
        j \in {p \in 1..Len(queue[k].line.instr) : queue[k].line.instr[p][1].ref}}

\* what survey yields for queue line k: nothing for a label or an empty
\* line, the header for a segment line, and for an instruction its parts
\* with each reference resolved at the line's address against LastDef
YieldOf(k) ==
    IF queue[k].line.type = "segment" THEN <<queue[k].line>>
    ELSE IF queue[k].line.type = "instr"
    THEN <<InstrLine([j \in 1..Len(queue[k].line.instr) |->
               IF queue[k].line.instr[j][1].ref
               THEN observe(queue[k].line.instr[j], queue[k].addr, LastDef).val
               ELSE queue[k].line.instr[j]])>>
    ELSE <<>>

RECURSIVE YieldsUpTo(_)
YieldsUpTo(n) == IF n = 0 THEN <<>> ELSE YieldsUpTo(n - 1) \o YieldOf(n)

\* C16: survey yields nothing before its input is read to the end; the
\* symbol table holds for each label the address of its last definition, and
\* every reference, before or after the definitions, is resolved against
\* that table; a line referring to a label defined nowhere is never passed,
\* survey fails at it; the output is the headers and the resolved
\* instructions of the lines passed, in input order.
C16_ResolvedAgainstWholeTable ==
    /\ sPos = 0 => sOut = <<>>
    /\ map = LastDef
    /\ sPos > 0 =>
         /\ sOut = YieldsUpTo(sPos - 1)
         /\ Len(sOut) <= sPos - 1
         /\ \A k \in 1..(sPos - 1) : RefsOf(k) \subseteq Defined
         /\ (sPc = "pass2" /\ sPos <= Len(queue) /\ ~(RefsOf(sPos) \subseteq Defined)) =>
               ~survey_resolve(queue[sPos], map).ok
         /\ sPc = "done" => sPos = Len(queue) + 1

\* x is defined before and after the line that refers to it, at -1 and at
\* 2; the reference resolves to 2
C16_Witness ==
    /\ sPc = "done"
    /\ queue = <<[line |-> LabelLine("x"), addr |-> Py(-1)],
                 [line |-> InstrLine(<<Field(Py(55), 7), Field(Py(5), 5),
                                      RefOpd("x", <<11, 0>>, <<TN("imm", 12)>>)>>),
                  addr |-> Py(-1)],
                 [line |-> LabelLine("x"), addr |-> Py(2)]>>
    /\ sOut = <<InstrLine(<<Field(Py(55), 7), Field(Py(5), 5), Field(Py(2), 12)>>)>>

=============================================================================
